---- MODULE Spec2Model ----
(***************************************************************************)
(* A model of phidata's ServerBase application (phidata/app/server/        *)
(* server_base.py): one ServerBase object holding its configuration        *)
(* (self.args) and workspace root, and the three resource-graph builders   *)
(* get_docker_rg, get_k8s_rg and get_aws_rg called on it in any order;     *)
(* and of log_conversation_event (phi/api/conversation.py), which shares   *)
(* no state with the builders and is called under a specification of its   *)
(* own, LogSpec.  The init_*_resource_groups calls, which run a builder    *)
(* and store its graph in the app's collections, are the steps of a third  *)
(* specification, GroupSpec.                                               *)
(*                                                                         *)
(* Python values are modelled as follows.  Optional[T] is a sequence of    *)
(* length 0 (None) or 1 (the value).  A dict is a function whose domain is *)
(* the set of its keys.  A list is a sequence.  An object is a record of   *)
(* its constructor arguments.  A list or dict object reachable from        *)
(* self.args that a builder binds to a local name is the same object:      *)
(* what the builder appends to it is written back to self.args.            *)
(***************************************************************************)
EXTENDS Integers, Sequences, FiniteSets, TLC

VARIABLES
    args,                 \* self.args: the ServerBaseArgs built by __init__
    workspace_root_path,  \* self.workspace_root_path
    container_paths_ok,   \* whether self.get_container_paths() can resolve
    ret,                  \* what the latest builder call did and returned
    api_enabled,          \* phi_cli_settings.api_enabled
    log,                  \* what the latest log_conversation_event call did
    docker_resource_groups,  \* self.docker_resource_groups
    k8s_resource_groups,     \* self.k8s_resource_groups
    aws_resource_groups      \* self.aws_resource_groups

\* The three resource-group collections of the app
resource_groups == <<docker_resource_groups, k8s_resource_groups, aws_resource_groups>>

vars == <<args, workspace_root_path, container_paths_ok, ret, api_enabled, log,
          resource_groups>>

-----------------------------------------------------------------------------
(* Bounds of the model *)

\* Longest aws_subnets list a configuration holds.
MaxSubnets == 2
\* Longest caller-supplied extra_* list a configuration holds.
MaxExtra == 1
\* get_k8s_rg is not called again once an extra_* list has grown this long.
MaxListLen == 3

-----------------------------------------------------------------------------
(* Python values *)

None == <<>>
Some(v) == <<v>>

\* Optional[T] over the values of S
Optional(S) == {None} \cup {Some(v) : v \in S}

\* {}: the dict with no keys
EmptyDict == [k \in {} |-> 0]

\* d[k] = v
DictSet(d, k, v) == [x \in (DOMAIN d) \cup {k} |-> IF x = k THEN v ELSE d[x]]

\* d.update(e)
DictUpdate(d, e) ==
    [k \in (DOMAIN d) \cup (DOMAIN e) |-> IF k \in DOMAIN e THEN e[k] ELSE d[k]]

\* str(bool)
BoolStr(b) == IF b THEN "True" ELSE "False"

\* bool(x) of an Optional dict or list: None, {} and [] are falsy
Truthy(opt) == opt # None /\ DOMAIN opt[1] # {}

\* `opt or {}`: the dict itself when truthy, else a fresh empty dict
OrEmpty(opt) == IF Truthy(opt) THEN opt[1] ELSE EmptyDict

\* `opt or []`: the list itself when truthy, else a fresh empty list
OrEmptyList(opt) == IF Truthy(opt) THEN opt[1] ELSE <<>>

\* `x if len(x) > 0 else None`
NoneIfEmpty(x) == IF DOMAIN x # {} THEN Some(x) ELSE None

\* str(int) on the port numbers of the model
PortStr(p) ==
    CASE p = 8080 -> "8080"
      [] p = 9090 -> "9090"
      [] OTHER -> "0"

\* str(pathlib.Path), Path.stem
PathStr(p) == p.parent \o "/" \o p.stem
PathStem(p) == p.stem

-----------------------------------------------------------------------------
(* Build contexts passed to the builders *)

DockerBuildContext == [kind |-> "DockerBuildContext", network |-> "phi", namespace |-> "", service_account_name |-> "", labels |-> None]
K8sBuildContext == [kind |-> "K8sBuildContext", network |-> "", namespace |-> "default", service_account_name |-> "default-sa", labels |-> None]
AwsBuildContext == [kind |-> "AwsBuildContext", network |-> "", namespace |-> "", service_account_name |-> "", labels |-> None]
\* A K8sBuildContext that carries labels and names no service account
K8sLabelledBuildContext ==
    [kind |-> "K8sBuildContext", network |-> "", namespace |-> "team",
     service_account_name |-> "", labels |-> Some([env |-> "dev"])]
NoContext == [kind |-> "None", network |-> "", namespace |-> "", service_account_name |-> "", labels |-> None]

BuildContexts ==
    {NoContext, DockerBuildContext, K8sBuildContext, K8sLabelledBuildContext,
     AwsBuildContext}

\* Variant of the check below that tests for None only.
IsDockerBuildContextNotNone(ctx) == ctx.kind # "None"

\* docker_build_context is None or not isinstance(.., DockerBuildContext), negated
IsDockerBuildContext(ctx) == ctx.kind # "None" /\ ctx.kind = "DockerBuildContext"

\* k8s_build_context is None or not isinstance(.., K8sBuildContext), negated
IsK8sBuildContext(ctx) == ctx.kind # "None" /\ ctx.kind = "K8sBuildContext"

-----------------------------------------------------------------------------
(* What a builder call leaves behind *)

\* Variant of the return below that comes after the builder constructed a
\* resource object.
ReturnNoneAfterBuilding(op, ctx, msg) ==
    [op |-> op, ctx |-> ctx.kind, context |-> ctx, outcome |-> "none", exc |-> "",
     rg |-> None, constructed |-> <<"resource">>, lookups |-> <<>>, logged |-> <<msg>>]

\* In what a call leaves behind, ctx is the kind of the build context
\* passed and context the build context as it is after the call.

\* The call logged the error msg and returned None.
ReturnNone(op, ctx, msg) ==
    [op |-> op, ctx |-> ctx.kind, context |-> ctx, outcome |-> "none", exc |-> "",
     rg |-> None, constructed |-> <<>>, lookups |-> <<>>, logged |-> <<msg>>]

\* The call returned the resource group rg, having constructed the objects
\* of `made`, looked up the subnets of `looked` and logged the errors of `errs`.
ReturnGraph(op, ctx, made, looked, errs, rg) ==
    [op |-> op, ctx |-> ctx.kind, context |-> ctx, outcome |-> "graph", exc |-> "",
     rg |-> Some(rg), constructed |-> made, lookups |-> looked, logged |-> errs]

\* The call raised exc.
Raise(op, ctx, made, looked, exc) ==
    [op |-> op, ctx |-> ctx.kind, context |-> ctx, outcome |-> "raise", exc |-> exc,
     rg |-> None, constructed |-> made, lookups |-> looked, logged |-> <<>>]

\* No builder was called yet.
NoCall ==
    [op |-> "", ctx |-> "None", context |-> NoContext, outcome |-> "", exc |-> "",
     rg |-> None, constructed |-> <<>>, lookups |-> <<>>, logged |-> <<>>]

-----------------------------------------------------------------------------
(* Workspace and container paths *)

WorkspaceRoot == [parent |-> "/home/user", stem |-> "proj"]

\* PhidataApp.get_container_paths: None when the paths cannot be resolved,
\* else the in-container paths derived from the workspace root.
get_container_paths(a, wrp, ok, add_ws_name_to_container_path) ==
    IF wrp = None \/ ~ok THEN None
    ELSE LET workspace_root ==
                 IF add_ws_name_to_container_path
                 THEN a.workspace_volume_container_path \o "/" \o PathStem(wrp[1])
                 ELSE a.workspace_volume_container_path
         IN Some([workspace_parent |-> a.workspace_volume_container_path,
                  workspace_root |-> workspace_root,
                  scripts_dir |-> workspace_root \o "/scripts",
                  storage_dir |-> workspace_root \o "/storage",
                  meta_dir |-> workspace_root \o "/meta",
                  products_dir |-> workspace_root \o "/products",
                  notebooks_dir |-> workspace_root \o "/notebooks",
                  workflows_dir |-> workspace_root \o "/workflows",
                  workspace_config_dir |-> workspace_root \o "/workspace",
                  requirements_file |-> workspace_root \o "/requirements.txt"])

\* phidata.utils.common.get_default_volume_name
get_default_volume_name(app_name) == app_name \o "-volume"

\* PhidataApp.get_container_name
get_container_name(a) == a.name \o "-container"

-----------------------------------------------------------------------------
(* The container environment *)

\* The names imported from phidata.constants
PYTHONPATH_ENV_VAR == "PYTHONPATH"
PHIDATA_RUNTIME_ENV_VAR == "PHIDATA_RUNTIME"
SCRIPTS_DIR_ENV_VAR == "PHI_SCRIPTS_DIR"
STORAGE_DIR_ENV_VAR == "PHI_STORAGE_DIR"
META_DIR_ENV_VAR == "PHI_META_DIR"
PRODUCTS_DIR_ENV_VAR == "PHI_PRODUCTS_DIR"
NOTEBOOKS_DIR_ENV_VAR == "PHI_NOTEBOOKS_DIR"
WORKFLOWS_DIR_ENV_VAR == "PHI_WORKFLOWS_DIR"
WORKSPACE_ROOT_ENV_VAR == "PHI_WORKSPACE_ROOT"
WORKSPACES_MOUNT_ENV_VAR == "PHI_WORKSPACES_MOUNT"
WORKSPACE_CONFIG_DIR_ENV_VAR == "PHI_WORKSPACE_CONFIG_DIR"

\* Variant of the resolution below that appends add_python_path to a
\* python_path that is set, too.
PythonPathAlwaysAdding(a, paths) ==
    (IF a.python_path # None THEN a.python_path[1] ELSE paths.workspace_root)
    \o (IF a.add_python_path # None /\ a.add_python_path[1] # ""
        THEN ":" \o a.add_python_path[1] ELSE "")

\* python_path of the Docker and Kubernetes builders
PythonPath(a, paths) ==
    IF a.python_path # None THEN a.python_path[1]
    ELSE paths.workspace_root
         \o (IF a.add_python_path # None /\ a.add_python_path[1] # ""
             THEN ":" \o a.add_python_path[1] ELSE "")

\* Variant of the dict below without its last entry.
RuntimeEnvNoPrintEnv(a, paths, runtime) ==
    [k \in {PHIDATA_RUNTIME_ENV_VAR, SCRIPTS_DIR_ENV_VAR, STORAGE_DIR_ENV_VAR,
            META_DIR_ENV_VAR, PRODUCTS_DIR_ENV_VAR, NOTEBOOKS_DIR_ENV_VAR,
            WORKFLOWS_DIR_ENV_VAR, WORKSPACE_ROOT_ENV_VAR,
            WORKSPACES_MOUNT_ENV_VAR, WORKSPACE_CONFIG_DIR_ENV_VAR,
            "INSTALL_REQUIREMENTS", "REQUIREMENTS_FILE_PATH", "MOUNT_WORKSPACE"} |->
        CASE k = PHIDATA_RUNTIME_ENV_VAR -> runtime
          [] k = SCRIPTS_DIR_ENV_VAR -> paths.scripts_dir
          [] k = STORAGE_DIR_ENV_VAR -> paths.storage_dir
          [] k = META_DIR_ENV_VAR -> paths.meta_dir
          [] k = PRODUCTS_DIR_ENV_VAR -> paths.products_dir
          [] k = NOTEBOOKS_DIR_ENV_VAR -> paths.notebooks_dir
          [] k = WORKFLOWS_DIR_ENV_VAR -> paths.workflows_dir
          [] k = WORKSPACE_ROOT_ENV_VAR -> paths.workspace_root
          [] k = WORKSPACES_MOUNT_ENV_VAR -> paths.workspace_parent
          [] k = WORKSPACE_CONFIG_DIR_ENV_VAR -> paths.workspace_config_dir
          [] k = "INSTALL_REQUIREMENTS" -> BoolStr(a.install_requirements)
          [] k = "REQUIREMENTS_FILE_PATH" -> paths.requirements_file
          [] OTHER -> BoolStr(a.mount_workspace)]

\* The entries the container_env dict literal has in all three builders,
\* with the builder's value of PHIDATA_RUNTIME_ENV_VAR.
RuntimeEnv(a, paths, runtime) ==
    [k \in {PHIDATA_RUNTIME_ENV_VAR, SCRIPTS_DIR_ENV_VAR, STORAGE_DIR_ENV_VAR,
            META_DIR_ENV_VAR, PRODUCTS_DIR_ENV_VAR, NOTEBOOKS_DIR_ENV_VAR,
            WORKFLOWS_DIR_ENV_VAR, WORKSPACE_ROOT_ENV_VAR,
            WORKSPACES_MOUNT_ENV_VAR, WORKSPACE_CONFIG_DIR_ENV_VAR,
            "INSTALL_REQUIREMENTS", "REQUIREMENTS_FILE_PATH", "MOUNT_WORKSPACE",
            "PRINT_ENV_ON_LOAD"} |->
        CASE k = PHIDATA_RUNTIME_ENV_VAR -> runtime
          [] k = SCRIPTS_DIR_ENV_VAR -> paths.scripts_dir
          [] k = STORAGE_DIR_ENV_VAR -> paths.storage_dir
          [] k = META_DIR_ENV_VAR -> paths.meta_dir
          [] k = PRODUCTS_DIR_ENV_VAR -> paths.products_dir
          [] k = NOTEBOOKS_DIR_ENV_VAR -> paths.notebooks_dir
          [] k = WORKFLOWS_DIR_ENV_VAR -> paths.workflows_dir
          [] k = WORKSPACE_ROOT_ENV_VAR -> paths.workspace_root
          [] k = WORKSPACES_MOUNT_ENV_VAR -> paths.workspace_parent
          [] k = WORKSPACE_CONFIG_DIR_ENV_VAR -> paths.workspace_config_dir
          [] k = "INSTALL_REQUIREMENTS" -> BoolStr(a.install_requirements)
          [] k = "REQUIREMENTS_FILE_PATH" -> paths.requirements_file
          [] k = "MOUNT_WORKSPACE" -> BoolStr(a.mount_workspace)
          [] OTHER -> BoolStr(a.print_env_on_load)]

\* Variant of the dict literal of get_aws_rg with the runtime of get_docker_rg.
AwsBaseEnvDockerRuntime(a, paths) == RuntimeEnv(a, paths, "docker")

\* The container_env dict literal of get_docker_rg, get_k8s_rg, get_aws_rg
DockerBaseEnv(a, paths) ==
    DictSet(RuntimeEnv(a, paths, "docker"), PYTHONPATH_ENV_VAR, PythonPath(a, paths))
K8sBaseEnv(a, paths) ==
    DictSet(RuntimeEnv(a, paths, "kubernetes"), PYTHONPATH_ENV_VAR, PythonPath(a, paths))
AwsBaseEnv(a, paths) == RuntimeEnv(a, paths, "ecs")

\* PhidataApp.set_aws_env_vars: env_dict after the AWS-derived variables
\* (region and profile, when configured) were set in it
set_aws_env_vars(a, env_dict) ==
    LET with_region ==
            IF a.aws_region # None
            THEN DictSet(DictSet(env_dict, "AWS_REGION", a.aws_region[1]),
                         "AWS_DEFAULT_REGION", a.aws_region[1])
            ELSE env_dict
    IN IF a.aws_profile # None
       THEN DictSet(with_region, "AWS_PROFILE", a.aws_profile[1])
       ELSE with_region

\* PhidataApp.get_env_data: the variables read from env_file, None when
\* there is no file or it cannot be read
get_env_data(a) == a.env_file

\* PhidataApp.get_secret_data: the secret variables of the configuration
get_secret_data(a) == a.secrets

\* PhidataApp.set_container_env: container_env after it was updated with
\* the env file's variables, the secret variables and the inline env map
set_container_env(a, container_env) ==
    LET with_file == IF get_env_data(a) # None
                     THEN DictUpdate(container_env, get_env_data(a)[1])
                     ELSE container_env
        with_secrets == IF get_secret_data(a) # None
                        THEN DictUpdate(with_file, get_secret_data(a)[1])
                        ELSE with_file
    IN IF a.env # None THEN DictUpdate(with_secrets, a.env[1]) ELSE with_secrets

\* Variant of the block below that applies the env file after the inline
\* env map.
K8sContainerEnvFileLast(a, paths) ==
    LET with_aws == set_aws_env_vars(a, K8sBaseEnv(a, paths))
        with_env == IF a.env # None THEN DictUpdate(with_aws, a.env[1]) ELSE with_aws
    IN IF get_env_data(a) # None
       THEN DictUpdate(with_env, get_env_data(a)[1])
       ELSE with_env

\* Variant of the block below that merges the sources as set_container_env
\* does, the secret variables included.
K8sContainerEnvWithSecrets(a, paths) ==
    set_container_env(a, set_aws_env_vars(a, K8sBaseEnv(a, paths)))

\* The "Container Environment" block of get_k8s_rg: container_env when the
\* ConfigMap is created
K8sContainerEnv(a, paths) ==
    LET with_aws == set_aws_env_vars(a, K8sBaseEnv(a, paths))
        env_data_from_file == get_env_data(a)
        with_file == IF env_data_from_file # None
                     THEN DictUpdate(with_aws, env_data_from_file[1])
                     ELSE with_aws
    IN IF a.env # None THEN DictUpdate(with_file, a.env[1]) ELSE with_file

\* Variant of the block below that does not call set_container_env.
DockerContainerEnvNotSet(a, paths) ==
    set_aws_env_vars(a, DockerBaseEnv(a, paths))

\* The "Container Environment" block of get_docker_rg
DockerContainerEnv(a, paths) ==
    set_container_env(a, set_aws_env_vars(a, DockerBaseEnv(a, paths)))

\* The "Container Environment" block of get_aws_rg
AwsContainerEnv(a, paths) ==
    set_container_env(a, set_aws_env_vars(a, AwsBaseEnv(a, paths)))

\* [{"name": k, "value": v} for k, v in container_env.items()] over the keys
\* of `keys`, in one order of the keys
RECURSIVE EnvPairs(_, _)
EnvPairs(container_env, keys) ==
    IF keys = {} THEN <<>>
    ELSE LET k == CHOOSE x \in keys : TRUE
         IN <<[name |-> k, value |-> container_env[k]]>>
            \o EnvPairs(container_env, keys \ {k})

-----------------------------------------------------------------------------
(* Docker *)

WorkspaceVolumeTypes == {"HostPath", "EmptyDir", "PersistentVolume"}

BindRw(path) == [bind |-> path, mode |-> "rw"]

\* workspace_volume_name of the EmptyDir branch
DockerWorkspaceVolumeName(a, wrp) ==
    IF a.workspace_volume_name # None THEN a.workspace_volume_name[1]
    ELSE get_default_volume_name("spark-" \o PathStem(wrp[1]) \o "-ws")

\* Variant of the block below that keys the workspace volume by its
\* container path and tells no volume types apart.
DockerContainerVolumesKeyedByBind(a, wrp, paths) ==
    LET container_volumes == OrEmpty(a.container_volumes_docker) IN
    IF ~a.mount_workspace
    THEN [supported |-> TRUE, container_volumes |-> container_volumes]
    ELSE [supported |-> a.workspace_volume_type = None
                        \/ a.workspace_volume_type[1] \in {"HostPath", "EmptyDir"},
          container_volumes |->
              DictSet(container_volumes, paths.workspace_root,
                      BindRw(paths.workspace_root))]

\* Variant of the block below that treats EmptyDir as unsupported.
DockerContainerVolumesNoEmptyDir(a, wrp, paths) ==
    LET container_volumes == OrEmpty(a.container_volumes_docker) IN
    IF ~a.mount_workspace
    THEN [supported |-> TRUE, container_volumes |-> container_volumes]
    ELSE IF a.workspace_volume_type = None
            \/ a.workspace_volume_type[1] = "HostPath"
    THEN [supported |-> TRUE,
          container_volumes |->
              DictSet(container_volumes,
                      IF a.workspace_volume_host_path # None
                      THEN a.workspace_volume_host_path[1]
                      ELSE PathStr(wrp[1]),
                      BindRw(paths.workspace_root))]
    ELSE [supported |-> FALSE, container_volumes |-> container_volumes]

\* The "Container Volumes" block of get_docker_rg: whether the volume type
\* is supported, and the container_volumes dict after the block.
DockerContainerVolumes(a, wrp, paths) ==
    LET container_volumes == OrEmpty(a.container_volumes_docker) IN
    IF ~a.mount_workspace
    THEN [supported |-> TRUE, container_volumes |-> container_volumes]
    ELSE IF a.workspace_volume_type = None
            \/ a.workspace_volume_type[1] = "HostPath"
    THEN LET workspace_volume_host_path ==
                 IF a.workspace_volume_host_path # None
                 THEN a.workspace_volume_host_path[1]
                 ELSE PathStr(wrp[1])
         IN [supported |-> TRUE,
             container_volumes |->
                 DictSet(container_volumes, workspace_volume_host_path,
                         BindRw(paths.workspace_root))]
    ELSE IF a.workspace_volume_type[1] = "EmptyDir"
    THEN [supported |-> TRUE,
          container_volumes |->
              DictSet(container_volumes, DockerWorkspaceVolumeName(a, wrp),
                      BindRw(paths.workspace_root))]
    ELSE [supported |-> FALSE, container_volumes |-> container_volumes]

\* Variant of the block below that leaves a caller-supplied binding of the
\* container port in place.
DockerContainerPortsKeepCaller(a) ==
    LET container_ports == OrEmpty(a.container_ports_docker) IN
    IF a.open_container_port /\ PortStr(a.container_port) \notin DOMAIN container_ports
    THEN DictSet(container_ports, PortStr(a.container_port), a.container_host_port)
    ELSE container_ports

\* The "Container Ports" block of get_docker_rg.
DockerContainerPorts(a) ==
    LET container_ports == OrEmpty(a.container_ports_docker) IN
    IF a.open_container_port
    THEN DictSet(container_ports, PortStr(a.container_port), a.container_host_port)
    ELSE container_ports

\* self.args after a dict bound by `self.args.f or {}` was assigned into:
\* the dict of self.args is the one assigned into iff it was truthy.
WriteBack(opt, new) == IF Truthy(opt) THEN Some(new) ELSE opt

\* get_docker_rg: the configuration after the call and the call's outcome.
get_docker_rg(a, wrp, ok, ctx) ==
    LET op == "get_docker_rg" IN
    IF ~IsDockerBuildContext(ctx)
    THEN [args |-> a, ret |-> ReturnNone(op, ctx, "docker_build_context must be a DockerBuildContext")]
    ELSE IF wrp = None
    THEN [args |-> a, ret |-> ReturnNone(op, ctx, "Invalid workspace_root_path")]
    ELSE LET container_paths == get_container_paths(a, wrp, ok, TRUE) IN
    IF container_paths = None
    THEN [args |-> a, ret |-> ReturnNone(op, ctx, "Could not build container paths")]
    ELSE LET vol == DockerContainerVolumes(a, wrp, container_paths[1]) IN
    IF ~vol.supported
    THEN [args |-> a, ret |-> ReturnNone(op, ctx, a.workspace_volume_type[1] \o " not supported")]
    ELSE LET container_volumes == vol.container_volumes
             container_ports == DockerContainerPorts(a)
             a1 == [a EXCEPT
                      !.container_volumes_docker =
                          IF a.mount_workspace
                          THEN WriteBack(a.container_volumes_docker, container_volumes)
                          ELSE @,
                      !.container_ports_docker =
                          IF a.open_container_port
                          THEN WriteBack(a.container_ports_docker, container_ports)
                          ELSE @]
             docker_container ==
                 [name |-> get_container_name(a),
                  environment |-> DockerContainerEnv(a, container_paths[1]),
                  network |-> ctx.network,
                  ports |-> NoneIfEmpty(container_ports),
                  volumes |-> NoneIfEmpty(container_volumes)]
             docker_rg ==
                 [name |-> a.name,
                  network |-> [name |-> ctx.network],
                  containers |-> <<docker_container>>]
         IN [args |-> a1,
             ret |-> ReturnGraph(op, ctx,
                        <<"DockerContainer", "DockerNetwork", "DockerResourceGroup">>,
                        <<>>, <<>>, docker_rg)]

-----------------------------------------------------------------------------
(* Kubernetes *)

\* PhidataApp.get_configmap_name, get_secret_name, get_deploy_name,
\* get_pod_name, get_service_name
get_configmap_name(a) == a.name \o "-cm"
get_secret_name(a) == a.name \o "-secret"
get_deploy_name(a) == a.name \o "-deploy"
get_pod_name(a) == a.name \o "-pod"
get_service_name(a) == a.name \o "-svc"

\* PhidataApp.get_sa_name, get_cr_name, get_crb_name
get_sa_name(a) == a.name \o "-sa"
get_cr_name(a) == a.name \o "-cr"
get_crb_name(a) == a.name \o "-crb"

\* `opt or default` for an Optional[str]: the string when it is set and
\* non-empty, else the default
OrStr(opt, default) == IF opt # None /\ opt[1] # "" THEN opt[1] ELSE default

CreateNamespace(ns, labels) ==
    [kind |-> "Namespace", ns |-> ns, labels |-> labels]

CreateServiceAccount(sa_name, namespace) ==
    [kind |-> "ServiceAccount", sa_name |-> sa_name, namespace |-> namespace]

PolicyRule(api_groups, resources, verbs) ==
    [api_groups |-> api_groups, resources |-> resources, verbs |-> verbs]

CreateClusterRole(cr_name, rules, labels) ==
    [kind |-> "ClusterRole", cr_name |-> cr_name, rules |-> rules, labels |-> labels]

CreateClusterRoleBinding(crb_name, cr_name, service_account_name, namespace, labels) ==
    [kind |-> "ClusterRoleBinding", crb_name |-> crb_name, cr_name |-> cr_name,
     service_account_name |-> service_account_name, namespace |-> namespace,
     labels |-> labels]

\* Variant of the block below that generates the missing RBAC objects
\* whether or not use_rbac is set.
K8sRbacAlways(a, ctx) ==
    LET ns_name == OrStr(a.ns_name, ctx.namespace)
        sa_name == OrStr(a.sa_name, ctx.service_account_name)
        ns == IF a.namespace = None THEN CreateNamespace(ns_name, ctx.labels)
              ELSE a.namespace[1]
        sa == IF a.service_account = None
              THEN CreateServiceAccount(OrStr(Some(sa_name), get_sa_name(a)), ns.ns)
              ELSE a.service_account[1]
        cr == IF a.cluster_role = None
              THEN CreateClusterRole(OrStr(a.cr_name, get_cr_name(a)), <<>>, ctx.labels)
              ELSE a.cluster_role[1]
        crb == IF a.cluster_role_binding = None
               THEN CreateClusterRoleBinding(OrStr(a.crb_name, get_crb_name(a)),
                                             cr.cr_name, sa.sa_name, ns.ns, ctx.labels)
               ELSE a.cluster_role_binding[1]
    IN [ns |-> Some(ns), sa |-> Some(sa), cr |-> Some(cr), crb |-> Some(crb),
        ns_name |-> ns.ns, sa_name |-> sa.sa_name, made |-> <<>>]

\* Variant of the block below that keeps ns_name and sa_name as first
\* derived instead of taking them from the namespace and service account.
K8sRbacKeepingNames(a, ctx) ==
    LET ns_name == OrStr(a.ns_name, ctx.namespace)
        sa_name == OrStr(a.sa_name, ctx.service_account_name)
    IN IF ~a.use_rbac
       THEN [ns |-> a.namespace, sa |-> a.service_account, cr |-> a.cluster_role,
             crb |-> a.cluster_role_binding, ns_name |-> ns_name,
             sa_name |-> sa_name, made |-> <<>>]
       ELSE
       LET ns == IF a.namespace = None THEN CreateNamespace(ns_name, ctx.labels)
                 ELSE a.namespace[1]
           sa == IF a.service_account = None
                 THEN CreateServiceAccount(OrStr(Some(sa_name), get_sa_name(a)), ns_name)
                 ELSE a.service_account[1]
           cr == IF a.cluster_role = None
                 THEN CreateClusterRole(OrStr(a.cr_name, get_cr_name(a)), <<>>, ctx.labels)
                 ELSE a.cluster_role[1]
           crb == IF a.cluster_role_binding = None
                  THEN CreateClusterRoleBinding(OrStr(a.crb_name, get_crb_name(a)),
                                                cr.cr_name, sa_name, ns_name, ctx.labels)
                  ELSE a.cluster_role_binding[1]
       IN [ns |-> Some(ns), sa |-> Some(sa), cr |-> Some(cr), crb |-> Some(crb),
           ns_name |-> ns_name, sa_name |-> sa_name, made |-> <<>>]

\* The "Common variables" and "Use K8s RBAC" blocks of get_k8s_rg: the
\* namespace, service account, cluster role and cluster role binding of the
\* graph, the ns_name and sa_name the later objects are created with, and
\* the objects constructed.
K8sRbac(a, ctx) ==
    LET ns_name == OrStr(a.ns_name, ctx.namespace)
        sa_name == OrStr(a.sa_name, ctx.service_account_name)
        common_labels == ctx.labels
    IN IF ~a.use_rbac
       THEN [ns |-> a.namespace, sa |-> a.service_account, cr |-> a.cluster_role,
             crb |-> a.cluster_role_binding, ns_name |-> ns_name,
             sa_name |-> sa_name, made |-> <<>>]
       ELSE
       LET ns == IF a.namespace = None THEN CreateNamespace(ns_name, common_labels)
                 ELSE a.namespace[1]
           ns_name1 == ns.ns
           sa == IF a.service_account = None
                 THEN CreateServiceAccount(OrStr(Some(sa_name), get_sa_name(a)), ns_name1)
                 ELSE a.service_account[1]
           sa_name1 == sa.sa_name
           cr == IF a.cluster_role = None
                 THEN CreateClusterRole(
                          OrStr(a.cr_name, get_cr_name(a)),
                          <<PolicyRule(<<"">>, <<"pods", "secrets", "configmaps">>,
                                       <<"get", "list", "watch", "create", "update",
                                         "patch", "delete">>),
                            PolicyRule(<<"">>, <<"pods/logs">>, <<"get", "list">>)>>,
                          common_labels)
                 ELSE a.cluster_role[1]
           crb == IF a.cluster_role_binding = None
                  THEN CreateClusterRoleBinding(OrStr(a.crb_name, get_crb_name(a)),
                                                cr.cr_name, sa.sa_name, ns_name1,
                                                common_labels)
                  ELSE a.cluster_role_binding[1]
       IN [ns |-> Some(ns), sa |-> Some(sa), cr |-> Some(cr), crb |-> Some(crb),
           ns_name |-> ns_name1, sa_name |-> sa_name1,
           made |-> (IF a.namespace = None THEN <<"CreateNamespace">> ELSE <<>>)
                    \o (IF a.service_account = None
                        THEN <<"CreateServiceAccount">> ELSE <<>>)
                    \o (IF a.cluster_role = None THEN <<"CreateClusterRole">> ELSE <<>>)
                    \o (IF a.cluster_role_binding = None
                        THEN <<"CreateClusterRoleBinding">> ELSE <<>>)]

\* [cm.cm_name for cm in config_maps] if len(config_maps) > 0 else None
NamesOf(objs) == NoneIfEmpty([i \in DOMAIN objs |-> objs[i].name])

CreateConfigMap(cm_name, namespace, data) ==
    [kind |-> "ConfigMap", name |-> cm_name, namespace |-> namespace,
     data |-> data]

CreateSecret(secret_name, namespace, string_data) ==
    [kind |-> "Secret", name |-> secret_name, namespace |-> namespace,
     string_data |-> string_data]

CreateVolume(volume_name, mount_path, volume_type, host_path) ==
    [kind |-> "Volume", name |-> volume_name, mount_path |-> mount_path,
     volume_type |-> volume_type, host_path |-> host_path]

CreatePort(name, container_port, service_port, target_port) ==
    [kind |-> "Port", name |-> name, container_port |-> container_port,
     service_port |-> service_port, target_port |-> target_port]

CreateContainer(container_name, env, envs_from_configmap, envs_from_secret, ports, volumes, labels) ==
    [kind |-> "Container", name |-> container_name, env |-> env,
     envs_from_configmap |-> envs_from_configmap,
     envs_from_secret |-> envs_from_secret,
     ports |-> ports, volumes |-> volumes, labels |-> labels]

\* `labels = common_labels or {}`, then labels.update(own) when own labels
\* are given: the labels the object is created with, and common_labels
\* after the update, which is that same dict when it was not empty
OverlayLabels(common_labels, own) ==
    LET labels == IF own # None THEN DictUpdate(OrEmpty(common_labels), own[1])
                  ELSE OrEmpty(common_labels)
    IN [labels |-> labels,
        common_labels |-> IF Truthy(common_labels) THEN Some(labels) ELSE common_labels]

\* workspace_volume_name of the "Container Volumes" block of get_k8s_rg
K8sWorkspaceVolumeName(a, wrp) ==
    IF a.workspace_volume_name # None THEN a.workspace_volume_name[1]
    ELSE get_default_volume_name("spark-" \o PathStem(wrp[1]) \o "-ws")

\* str(self.args.git_sync_wait) on the waits of the model
WaitStr(n) == IF n = 1 THEN "1" ELSE "0"

\* git_sync_env of the sidecar
GitSyncEnv(a, wrp, paths) ==
    LET base == [GIT_SYNC_REPO |-> a.git_sync_repo[1],
                 GIT_SYNC_ROOT |-> paths.workspace_parent,
                 GIT_SYNC_DEST |-> PathStem(wrp[1])]
        with_branch == IF a.git_sync_branch # None
                       THEN DictSet(base, "GIT_SYNC_BRANCH", a.git_sync_branch[1])
                       ELSE base
    IN DictSet(with_branch, "GIT_SYNC_WAIT", WaitStr(a.git_sync_wait))

\* Variant of the block below that tells no volume types apart: it always
\* appends an EmptyDir volume and never a git-sync container.
K8sContainerVolumesEmptyDirOnly(a, wrp, paths, config_maps, secrets, volumes, containers, init_containers) ==
    [volumes |-> IF a.mount_workspace
                 THEN Append(volumes,
                             CreateVolume(K8sWorkspaceVolumeName(a, wrp),
                                          paths.workspace_parent, "EMPTY_DIR", None))
                 ELSE volumes,
     containers |-> containers, init_containers |-> init_containers,
     logged_error |-> FALSE]

\* The "Container Volumes" block of get_k8s_rg: the volumes, containers and
\* init_containers lists after the block, and whether it logged
\* "GIT_SYNC_REPO invalid".
K8sContainerVolumes(a, wrp, paths, config_maps, secrets, volumes, containers, init_containers) ==
    LET unchanged == [volumes |-> volumes, containers |-> containers,
                      init_containers |-> init_containers, logged_error |-> FALSE]
    IN
    IF ~a.mount_workspace THEN unchanged
    ELSE IF a.workspace_volume_type = None \/ a.workspace_volume_type[1] = "EmptyDir"
    THEN LET workspace_volume ==
                 CreateVolume(K8sWorkspaceVolumeName(a, wrp), paths.workspace_parent,
                              "EMPTY_DIR", None)
             volumes1 == Append(volumes, workspace_volume)
         IN IF ~a.create_git_sync_sidecar
            THEN [unchanged EXCEPT !.volumes = volumes1]
            ELSE IF a.git_sync_repo = None
            THEN [unchanged EXCEPT !.volumes = volumes1, !.logged_error = TRUE]
            ELSE LET git_sync_container ==
                         CreateContainer("git-sync", Some(GitSyncEnv(a, wrp, paths)),
                                         NamesOf(config_maps), NamesOf(secrets), None,
                                         Some(<<workspace_volume>>), EmptyDict)
                     git_sync_init_container ==
                         [git_sync_container EXCEPT
                            !.name = "git-sync-init",
                            !.env = Some(DictSet(GitSyncEnv(a, wrp, paths),
                                                 "GIT_SYNC_ONE_TIME", "True"))]
                 IN [volumes |-> volumes1,
                     containers |-> Append(containers, git_sync_container),
                     init_containers |->
                         IF a.create_git_sync_init_container
                         THEN Append(init_containers, git_sync_init_container)
                         ELSE init_containers,
                     logged_error |-> FALSE]
    ELSE IF a.workspace_volume_type[1] = "HostPath"
    THEN [unchanged EXCEPT
            !.volumes = Append(volumes,
                CreateVolume(K8sWorkspaceVolumeName(a, wrp), paths.workspace_root,
                             "HOST_PATH", Some(PathStr(wrp[1]))))]
    ELSE unchanged

\* Variant of the list below in which the generated ConfigMap replaces the
\* caller-supplied ConfigMaps of the same name.
K8sConfigMapsDeduplicated(a, container_env_cm) ==
    LET config_maps == OrEmptyList(a.extra_configmaps) IN
    SelectSeq(config_maps, LAMBDA cm : cm.name # container_env_cm.name)
    \o <<container_env_cm>>

\* config_maps after config_maps.append(container_env_cm)
K8sConfigMaps(a, container_env_cm) ==
    Append(OrEmptyList(a.extra_configmaps), container_env_cm)

\* self.args.configmap_name or self.get_configmap_name()
K8sConfigMapName(a) ==
    IF a.configmap_name # None /\ a.configmap_name[1] # ""
    THEN a.configmap_name[1] ELSE get_configmap_name(a)

\* self.args.secret_name or self.get_secret_name()
K8sSecretName(a) ==
    IF a.secret_name # None /\ a.secret_name[1] # ""
    THEN a.secret_name[1] ELSE get_secret_name(a)

\* Variant of the block below that names the pod as the default container.
K8sPodAnnotationsPodName(a, spark_container) ==
    LET pod_annotations ==
            [k \in {"kubectl.kubernetes.io/default-container"} |-> get_pod_name(a)]
    IN IF a.pod_annotations # None
       THEN DictUpdate(pod_annotations, a.pod_annotations[1])
       ELSE pod_annotations

\* The "Set default container for kubectl commands" block of get_k8s_rg
K8sPodAnnotations(a, spark_container) ==
    LET pod_annotations ==
            [k \in {"kubectl.kubernetes.io/default-container"} |-> spark_container.name]
    IN IF a.pod_annotations # None
       THEN DictUpdate(pod_annotations, a.pod_annotations[1])
       ELSE pod_annotations

\* Variant of the block below that gives the port descriptor the service
\* port as its container port and always targets the port name.
K8sPortsSwapped(a) ==
    IF a.open_container_port
    THEN Append(OrEmptyList(a.extra_ports),
                CreatePort(a.container_port_name, a.service_port,
                           a.container_port, a.container_port_name))
    ELSE OrEmptyList(a.extra_ports)

\* The "Create the ports to open" block of get_k8s_rg: the ports list after
\* the block.
K8sPorts(a) ==
    IF a.open_container_port
    THEN Append(OrEmptyList(a.extra_ports),
                CreatePort(a.container_port_name, a.container_port,
                           a.service_port,
                           IF a.service_target_port # None /\ a.service_target_port[1] # ""
                           THEN a.service_target_port[1]
                           ELSE a.container_port_name))
    ELSE OrEmptyList(a.extra_ports)

\* get_k8s_rg: the configuration after the call and the call's outcome.
get_k8s_rg(a, wrp, ok, ctx) ==
    LET op == "get_k8s_rg" IN
    IF ~IsK8sBuildContext(ctx)
    THEN [args |-> a, ret |-> ReturnNone(op, ctx, "k8s_build_context must be a K8sBuildContext")]
    ELSE IF wrp = None
    THEN [args |-> a, ret |-> ReturnNone(op, ctx, "Invalid workspace_root_path")]
    ELSE LET container_paths == get_container_paths(a, wrp, ok, TRUE) IN
    IF container_paths = None
    THEN [args |-> a, ret |-> ReturnNone(op, ctx, "Could not build container paths")]
    ELSE
    LET paths == container_paths[1]
        rbac == K8sRbac(a, ctx)
        ns_name == rbac.ns_name
        sa_name == rbac.sa_name
        container_env == K8sContainerEnv(a, paths)
        \* Create a ConfigMap / a Secret for the container env
        config_maps ==
            K8sConfigMaps(a, CreateConfigMap(K8sConfigMapName(a), ns_name, container_env))
        secret_data == get_secret_data(a)
        secrets ==
            IF secret_data # None
            THEN Append(OrEmptyList(a.extra_secrets),
                        CreateSecret(K8sSecretName(a), ns_name, secret_data[1]))
            ELSE OrEmptyList(a.extra_secrets)
        \* Container Volumes
        vol == K8sContainerVolumes(a, wrp, paths, config_maps, secrets,
                                   OrEmptyList(a.extra_volumes),
                                   OrEmptyList(a.extra_containers),
                                   OrEmptyList(a.extra_init_containers))
        volumes == vol.volumes
        init_containers == vol.init_containers
        \* Create the ports to open
        ports == K8sPorts(a)
        container_labels == OverlayLabels(ctx.labels, a.container_labels)
        deploy_labels == OverlayLabels(container_labels.common_labels, a.deploy_labels)
        service_labels ==
            IF a.create_service
            THEN OverlayLabels(deploy_labels.common_labels, a.service_labels)
            ELSE [labels |-> EmptyDict, common_labels |-> deploy_labels.common_labels]
        \* k8s_build_context once the labels were updated
        ctx1 == [ctx EXCEPT !.labels = service_labels.common_labels]
        \* Create the Spark container
        spark_container ==
            CreateContainer(get_container_name(a), None, NamesOf(config_maps),
                            NamesOf(secrets), NoneIfEmpty(ports), NoneIfEmpty(volumes),
                            container_labels.labels)
        containers == <<spark_container>> \o vol.containers
        \* Create the deployment
        spark_deployment ==
            [kind |-> "Deployment", name |-> get_deploy_name(a),
             pod_name |-> get_pod_name(a), namespace |-> ns_name,
             service_account_name |-> sa_name,
             containers |-> containers,
             init_containers |-> NoneIfEmpty(init_containers),
             volumes |-> NoneIfEmpty(volumes),
             labels |-> deploy_labels.labels,
             pod_annotations |-> K8sPodAnnotations(a, spark_container)]
        deployments == Append(OrEmptyList(a.extra_deployments), spark_deployment)
        \* Create the services
        services ==
            IF a.create_service
            THEN Append(OrEmptyList(a.extra_services),
                        [kind |-> "Service", name |-> get_service_name(a),
                         namespace |-> ns_name, service_account_name |-> sa_name,
                         deployment |-> spark_deployment.name,
                         ports |-> NoneIfEmpty(ports),
                         labels |-> service_labels.labels])
            ELSE OrEmptyList(a.extra_services)
        a1 == [a EXCEPT
                 !.extra_secrets = WriteBack(@, secrets),
                 !.extra_configmaps = WriteBack(@, config_maps),
                 !.extra_services = WriteBack(@, services),
                 !.extra_deployments = WriteBack(@, deployments),
                 !.extra_containers = WriteBack(@, containers),
                 !.extra_init_containers = WriteBack(@, init_containers),
                 !.extra_ports = WriteBack(@, ports),
                 !.extra_volumes = WriteBack(@, volumes)]
        k8s_resource_group ==
            [name |-> a.name,
             ns |-> rbac.ns, sa |-> rbac.sa, cr |-> rbac.cr, crb |-> rbac.crb,
             secrets |-> NoneIfEmpty(secrets),
             config_maps |-> NoneIfEmpty(config_maps),
             storage_classes |-> NoneIfEmpty(OrEmptyList(a.extra_storage_classes)),
             services |-> NoneIfEmpty(services),
             deployments |-> NoneIfEmpty(deployments),
             custom_objects |-> NoneIfEmpty(OrEmptyList(a.extra_custom_objects)),
             crds |-> NoneIfEmpty(OrEmptyList(a.extra_crds)),
             pvs |-> NoneIfEmpty(OrEmptyList(a.extra_pvs)),
             pvcs |-> NoneIfEmpty(OrEmptyList(a.extra_pvcs))]
        made ==
            rbac.made \o <<"CreateConfigMap">>
            \o (IF secret_data # None THEN <<"CreateSecret">> ELSE <<>>)
            \o [i \in 1..(Len(volumes) - Len(OrEmptyList(a.extra_volumes))) |-> "CreateVolume"]
            \o [i \in 1..(Len(vol.containers) - Len(OrEmptyList(a.extra_containers))
                          + Len(init_containers) - Len(OrEmptyList(a.extra_init_containers)))
                  |-> "CreateContainer"]
            \o (IF a.open_container_port THEN <<"CreatePort">> ELSE <<>>)
            \o <<"CreateContainer", "CreateDeployment">>
            \o (IF a.create_service THEN <<"CreateService">> ELSE <<>>)
            \o <<"CreateK8sResourceGroup">>
    IN [args |-> a1,
        ret |-> ReturnGraph(op, ctx1, made, <<>>,
                    IF vol.logged_error THEN <<"GIT_SYNC_REPO invalid">> ELSE <<>>,
                    k8s_resource_group)]

-----------------------------------------------------------------------------
(* AWS *)

Subnets == {"subnet-a", "subnet-b", "subnet-c"}

\* Subnet(id=subnet).get_vpc_id(): the VPC each subnet lies in
get_vpc_id(subnet) == IF subnet = "subnet-c" THEN "vpc-2" ELSE "vpc-1"

\* PhidataApp.get_container_port
get_container_port(a) == a.container_port

\* Variant of the loop below without the len(vpc_ids) != 1 check.
RECURSIVE VpcLoopNoCheck(_, _, _, _)
VpcLoopNoCheck(subnets, i, vpc_ids, looked) ==
    IF i > Len(subnets) THEN [raised |-> FALSE, vpc_ids |-> vpc_ids, looked |-> looked]
    ELSE VpcLoopNoCheck(subnets, i + 1, vpc_ids \cup {get_vpc_id(subnets[i])},
                        Append(looked, subnets[i]))

\* The loop "for subnet in self.args.aws_subnets" from its i-th element on,
\* having collected vpc_ids and looked up `looked`: whether it raised, the
\* set collected and the lookups made.
RECURSIVE VpcLoop(_, _, _, _)
VpcLoop(subnets, i, vpc_ids, looked) ==
    IF i > Len(subnets) THEN [raised |-> FALSE, vpc_ids |-> vpc_ids, looked |-> looked]
    ELSE LET _vpc == get_vpc_id(subnets[i])
             vpc_ids1 == vpc_ids \cup {_vpc}
             looked1 == Append(looked, subnets[i])
         IN IF Cardinality(vpc_ids1) # 1
            THEN [raised |-> TRUE, vpc_ids |-> vpc_ids1, looked |-> looked1]
            ELSE VpcLoop(subnets, i + 1, vpc_ids1, looked1)

\* Variant of the service below that leaves the forcing to the defaults.
EcsServiceUnforced(name, cluster, task_definition, target_group, ecs_container, port) ==
    [name |-> name, cluster |-> cluster, task_definition |-> task_definition,
     target_group |-> target_group,
     target_container_name |-> ecs_container.name,
     target_container_port |-> port,
     force_delete |-> FALSE, force_new_deployment |-> FALSE]

\* The EcsService get_aws_rg creates
EcsService(name, cluster, task_definition, target_group, ecs_container, port) ==
    [name |-> name, cluster |-> cluster, task_definition |-> task_definition,
     target_group |-> target_group,
     target_container_name |-> ecs_container.name,
     target_container_port |-> port,
     force_delete |-> TRUE, force_new_deployment |-> TRUE]

\* get_aws_rg: the configuration after the call and the call's outcome.
get_aws_rg(a, wrp, ok, ctx) ==
    LET op == "get_aws_rg" IN
    IF wrp = None
    THEN [args |-> a, ret |-> ReturnNone(op, ctx, "Invalid workspace_root_path")]
    ELSE LET container_paths == get_container_paths(a, wrp, ok, FALSE) IN
    IF container_paths = None
    THEN [args |-> a, ret |-> ReturnNone(op, ctx, "Could not build container paths")]
    ELSE
    LET app_name == a.name
        ecs_cluster ==
            IF a.ecs_cluster = None
            THEN [name |-> app_name \o "-cluster", ecs_cluster_name |-> app_name]
            ELSE a.ecs_cluster[1]
        load_balancer ==
            IF a.elb = None
            THEN [name |-> app_name \o "-lb", subnets |-> a.aws_subnets]
            ELSE a.elb[1]
        made1 == (IF a.ecs_cluster = None THEN <<"EcsCluster">> ELSE <<>>)
                 \o (IF a.elb = None THEN <<"LoadBalancer">> ELSE <<>>)
    IN
    \* for subnet in None
    IF a.aws_subnets = None
    THEN [args |-> a, ret |-> Raise(op, ctx, made1, <<>>, "TypeError")]
    ELSE
    LET loop == VpcLoop(a.aws_subnets[1], 1, {}, <<>>) IN
    IF loop.raised
    THEN [args |-> a,
          ret |-> Raise(op, ctx, made1, loop.looked,
                        "ValueError: Subnets must be in the same VPC")]
    \* set().pop()
    ELSE IF loop.vpc_ids = {}
    THEN [args |-> a, ret |-> Raise(op, ctx, made1, loop.looked, "KeyError")]
    ELSE
    LET vpc_id == CHOOSE v \in loop.vpc_ids : TRUE
        container_env == AwsContainerEnv(a, container_paths[1])
        target_group ==
            [name |-> app_name \o "-tg", port |-> get_container_port(a),
             protocol |-> "HTTP", vpc_id |-> vpc_id, target_type |-> "ip"]
        listener ==
            [name |-> app_name \o "-listener", protocol |-> "HTTP",
             load_balancer |-> load_balancer,
             target_group |-> target_group]
        ecs_container ==
            [name |-> app_name,
             port_mappings |-> <<[containerPort |-> get_container_port(a)]>>,
             environment |-> EnvPairs(container_env, DOMAIN container_env)]
        ecs_task_definition ==
            [name |-> app_name \o "-td", family |-> app_name,
             containers |-> <<ecs_container>>]
        ecs_service ==
            EcsService(app_name \o "-service", ecs_cluster, ecs_task_definition,
                       target_group, ecs_container, get_container_port(a))
        aws_rg ==
            [name |-> app_name,
             ecs_clusters |-> <<ecs_cluster>>,
             ecs_task_definitions |-> <<ecs_task_definition>>,
             ecs_services |-> <<ecs_service>>,
             load_balancers |-> <<load_balancer>>,
             target_groups |-> <<target_group>>,
             listeners |-> <<listener>>]
        made == made1 \o <<"TargetGroup", "Listener", "EcsContainer",
                           "EcsTaskDefinition", "EcsService", "AwsResourceGroup">>
    IN [args |-> a, ret |-> ReturnGraph(op, ctx, made, loop.looked, <<>>, aws_rg)]

-----------------------------------------------------------------------------
(* The conversation event logger *)

\* ApiRoutes.CONVERSATION_EVENT
CONVERSATION_EVENT == "/v1/conversation/event"

\* The events and workspaces a caller may pass: pydantic objects whose
\* fields are set or None
ConversationEvents ==
    {[conversation_key |-> Some("c1"), event_type |-> Some("chat"), event_data |-> d] :
        d \in Optional({"hello"})}
ConversationWorkspaces ==
    {[id_workspace |-> i, ws_name |-> Some("proj")] : i \in Optional({"7"})}

\* obj.model_dump(exclude_none=True)
model_dump_exclude_none(obj) ==
    [f \in {g \in DOMAIN obj : obj[g] # None} |-> obj[f][1]]

\* What the API client, the network and the response do during one call:
\* whether api.Client() opens or raises, model_dump returns or raises,
\* post returns a response or raises, invalid_response(r) answers or
\* raises, r.json() yields null, an object or raises, and model_validate
\* accepts the object or raises.
Worlds ==
    [client : {"ok", "raises"}, dump : {"ok", "raises"}, post : {"ok", "raises"},
     invalid_response : {"valid", "invalid", "raises"},
     json : {"object", "null", "raises"}, model_validate : {"ok", "raises"}]

\* The object r.json() yields when the body is not null
ResponseJson == [conversation_key |-> "c1", status |-> "logged"]

OpenClient == [kind |-> "open_client", route |-> "", json |-> EmptyDict]
CloseClient == [kind |-> "close_client", route |-> "", json |-> EmptyDict]
Post(route, json) == [kind |-> "post", route |-> route, json |-> json]

\* What one pass through the try block leaves behind: the requests sent,
\* the response returned from inside the block (None when the block was
\* left without a return) and what `except Exception` logged.
TryResult(sent, response, debug) ==
    [sent |-> sent, response |-> response, debug |-> debug]

CouldNotLog == "Could not log conversation event"

\* Variant of the try block below that posts again when the post raises.
TryPostRetrying(conversation, workspace, world) ==
    LET request == Post(CONVERSATION_EVENT,
                        [event |-> model_dump_exclude_none(conversation),
                         workspace |-> model_dump_exclude_none(workspace)])
    IN IF world.dump = "raises" THEN TryResult(<<>>, None, <<CouldNotLog>>)
       ELSE IF world.post = "raises"
       THEN TryResult(<<request, request>>, None, <<CouldNotLog>>)
       ELSE IF world.invalid_response = "raises"
       THEN TryResult(<<request>>, None, <<CouldNotLog>>)
       ELSE IF world.invalid_response = "invalid" THEN TryResult(<<request>>, None, <<>>)
       ELSE IF world.json = "raises" THEN TryResult(<<request>>, None, <<CouldNotLog>>)
       ELSE IF world.json = "null" THEN TryResult(<<request>>, None, <<>>)
       ELSE IF world.model_validate = "raises"
       THEN TryResult(<<request>>, None, <<CouldNotLog>>)
       ELSE TryResult(<<request>>, Some(ResponseJson), <<>>)

\* Variant of the try block below that does not ask invalid_response.
TryPostUnchecked(conversation, workspace, world) ==
    LET request == Post(CONVERSATION_EVENT,
                        [event |-> model_dump_exclude_none(conversation),
                         workspace |-> model_dump_exclude_none(workspace)])
    IN IF world.dump = "raises" THEN TryResult(<<>>, None, <<CouldNotLog>>)
       ELSE IF world.post = "raises" THEN TryResult(<<request>>, None, <<CouldNotLog>>)
       ELSE IF world.json = "raises" THEN TryResult(<<request>>, None, <<CouldNotLog>>)
       ELSE IF world.json = "null" THEN TryResult(<<request>>, None, <<>>)
       ELSE IF world.model_validate = "raises"
       THEN TryResult(<<request>>, None, <<CouldNotLog>>)
       ELSE TryResult(<<request>>, Some(ResponseJson), <<>>)

\* The try block of log_conversation_event with its except clause
TryPost(conversation, workspace, world) ==
    LET request == Post(CONVERSATION_EVENT,
                        [event |-> model_dump_exclude_none(conversation),
                         workspace |-> model_dump_exclude_none(workspace)])
    IN \* building the json argument raises before post is called
       IF world.dump = "raises" THEN TryResult(<<>>, None, <<CouldNotLog>>)
       ELSE IF world.post = "raises" THEN TryResult(<<request>>, None, <<CouldNotLog>>)
       ELSE IF world.invalid_response = "raises"
       THEN TryResult(<<request>>, None, <<CouldNotLog>>)
       ELSE IF world.invalid_response = "invalid" THEN TryResult(<<request>>, None, <<>>)
       ELSE IF world.json = "raises" THEN TryResult(<<request>>, None, <<CouldNotLog>>)
       ELSE IF world.json = "null" THEN TryResult(<<request>>, None, <<>>)
       ELSE IF world.model_validate = "raises"
       THEN TryResult(<<request>>, None, <<CouldNotLog>>)
       ELSE TryResult(<<request>>, Some(ResponseJson), <<>>)

\* What a log_conversation_event call leaves behind: its arguments, the
\* world it ran in, what it did with the API client in order, what it
\* logged, and whether it returned a response, returned None or raised.
LogCall(conversation, workspace, world, events, debug, outcome, response) ==
    [called |-> TRUE, conversation |-> conversation, workspace |-> workspace,
     world |-> world, events |-> events, debug |-> debug,
     outcome |-> outcome, response |-> response]

\* log_conversation_event was not called yet.
NoLogCall ==
    [called |-> FALSE,
     conversation |-> [conversation_key |-> Some("c1"), event_type |-> Some("chat"),
                       event_data |-> None],
     workspace |-> [id_workspace |-> None, ws_name |-> Some("proj")],
     world |-> [client |-> "ok", dump |-> "ok", post |-> "ok",
                invalid_response |-> "valid", json |-> "object",
                model_validate |-> "ok"],
     events |-> <<>>, debug |-> <<>>, outcome |-> "", response |-> None]

\* Variant of the function below without the api_enabled check.
log_conversation_event_unchecked(enabled, conversation, workspace, world) ==
    IF world.client = "raises"
    THEN LogCall(conversation, workspace, world, <<>>, <<>>, "raise", None)
    ELSE LET try == TryPost(conversation, workspace, world) IN
         LogCall(conversation, workspace, world,
                 <<OpenClient>> \o try.sent \o <<CloseClient>>, try.debug,
                 IF try.response # None THEN "response" ELSE "none",
                 try.response)

\* log_conversation_event(conversation, workspace), called while
\* phi_cli_settings.api_enabled is `enabled`, in a world
log_conversation_event(enabled, conversation, workspace, world) ==
    IF ~enabled
    THEN LogCall(conversation, workspace, world, <<>>, <<>>, "none", None)
    \* `with api.Client() as api_client` stands outside the try block
    ELSE IF world.client = "raises"
    THEN LogCall(conversation, workspace, world, <<>>, <<>>, "raise", None)
    ELSE LET try == TryPost(conversation, workspace, world) IN
         \* leaving the with block, by return or past the except clause,
         \* closes the client
         LogCall(conversation, workspace, world,
                 <<OpenClient>> \o try.sent \o <<CloseClient>>, try.debug,
                 IF try.response # None THEN "response" ELSE "none",
                 try.response)

-----------------------------------------------------------------------------
(* Configurations: the arguments of ServerBase.__init__ *)

\* The defaults of ServerBase.__init__
DefaultArgs ==
    [name |-> "server",
     install_requirements |-> FALSE,
     python_path |-> None,
     add_python_path |-> None,
     env |-> None,
     env_file |-> None,
     print_env_on_load |-> FALSE,
     \* self.aws_region, self.aws_profile
     aws_region |-> None,
     aws_profile |-> None,
     open_container_port |-> FALSE,
     container_port |-> 8080,
     container_port_name |-> "http",
     container_host_port |-> 8080,
     mount_workspace |-> FALSE,
     workspace_volume_name |-> None,
     workspace_volume_type |-> None,
     workspace_volume_container_path |-> "/usr/local/server",
     workspace_volume_host_path |-> None,
     create_git_sync_sidecar |-> FALSE,
     create_git_sync_init_container |-> TRUE,
     git_sync_repo |-> None,
     git_sync_branch |-> None,
     git_sync_wait |-> 1,
     container_volumes_docker |-> None,
     container_ports_docker |-> None,
     secrets |-> None,
     create_service |-> FALSE,
     service_port |-> 8000,
     service_target_port |-> None,
     pod_annotations |-> None,
     secret_name |-> None,
     configmap_name |-> None,
     container_labels |-> None,
     deploy_labels |-> None,
     service_labels |-> None,
     use_rbac |-> FALSE,
     namespace |-> None,
     service_account |-> None,
     cluster_role |-> None,
     cluster_role_binding |-> None,
     ns_name |-> None,
     sa_name |-> None,
     cr_name |-> None,
     crb_name |-> None,
     extra_secrets |-> None,
     extra_configmaps |-> None,
     extra_services |-> None,
     extra_deployments |-> None,
     extra_pvs |-> None,
     extra_pvcs |-> None,
     extra_containers |-> None,
     extra_init_containers |-> None,
     extra_ports |-> None,
     extra_volumes |-> None,
     extra_storage_classes |-> None,
     extra_custom_objects |-> None,
     extra_crds |-> None,
     ecs_cluster |-> None,
     elb |-> None,
     aws_subnets |-> None]

\* container_volumes_docker as the caller may give it
UserVolumeKeys == {"/var/www", "/mnt/host"}
UserVolume(k) ==
    IF k = "/var/www" THEN [bind |-> "/mnt/vol1", mode |-> "ro"]
    ELSE [bind |-> "/mnt/vol2", mode |-> "rw"]
UserVolumeDicts == Optional({[k \in K |-> UserVolume(k)] : K \in SUBSET UserVolumeKeys})

\* container_ports_docker as the caller may give it
UserPortKeys == {"8080", "2222/tcp"}
UserPort(k) == IF k = "8080" THEN 9999 ELSE 3333
UserPortDicts == Optional({[k \in K |-> UserPort(k)] : K \in SUBSET UserPortKeys})

\* The i-th caller-supplied object of an extra_* list
Ordinal(i) == CASE i = 1 -> "1" [] i = 2 -> "2" [] i = 3 -> "3" [] OTHER -> "n"
UserConfigMap(i) == CreateConfigMap("user-cm-" \o Ordinal(i), "user-ns", [USER_KEY |-> "u"])
UserSecret(i) == CreateSecret("user-secret-" \o Ordinal(i), "user-ns", [TOKEN |-> "t"])
UserVolumeObj(i) == CreateVolume("user-vol-" \o Ordinal(i), "/data", "EMPTY_DIR", None)
UserPortObj(i) == CreatePort("user-port-" \o Ordinal(i), 9090, 9000, "user-port-" \o Ordinal(i))
UserContainer(i) == CreateContainer("user-ctr-" \o Ordinal(i), None, None, None, None, None, EmptyDict)
UserInitContainer(i) == CreateContainer("user-init-" \o Ordinal(i), None, None, None, None, None, EmptyDict)
UserService(i) ==
    [kind |-> "Service", name |-> "user-svc-" \o Ordinal(i), namespace |-> "user-ns",
     service_account_name |-> "user-sa", deployment |-> "user-deploy", ports |-> None,
     labels |-> EmptyDict]
UserDeployment(i) ==
    [kind |-> "Deployment", name |-> "user-deploy-" \o Ordinal(i),
     pod_name |-> "user-pod", namespace |-> "user-ns",
     service_account_name |-> "user-sa",
     containers |-> <<UserContainer(i)>>, init_containers |-> None, volumes |-> None,
     labels |-> EmptyDict, pod_annotations |-> EmptyDict]
UserOther(i) == [kind |-> "Other", name |-> "user-obj-" \o Ordinal(i)]

\* The i-th caller-supplied object of the extra_* list of a kind
UserObject(kind, i) ==
    CASE kind = "ConfigMap" -> UserConfigMap(i)
      [] kind = "Secret" -> UserSecret(i)
      [] kind = "Volume" -> UserVolumeObj(i)
      [] kind = "Port" -> UserPortObj(i)
      [] kind = "Container" -> UserContainer(i)
      [] kind = "InitContainer" -> UserInitContainer(i)
      [] kind = "Service" -> UserService(i)
      [] kind = "Deployment" -> UserDeployment(i)
      [] OTHER -> UserOther(i)

\* An extra_* list: None, or the first n caller-supplied objects
ExtraLists(kind) == Optional({[i \in 1..n |-> UserObject(kind, i)] : n \in 0..MaxExtra})

\* The extra_* list of n objects of the caller, None when n is negative
ExtraList(kind, n) ==
    IF n < 0 THEN None ELSE Some([i \in 1..n |-> UserObject(kind, i)])

\* aws_subnets: None, or a list of at most MaxSubnets subnets
SubnetLists == Optional(UNION {[1..n -> Subnets] : n \in 0..MaxSubnets})

\* Configurations that vary the Docker volume options
DockerVolumeConfigs ==
    {[DefaultArgs EXCEPT
        !.mount_workspace = m, !.workspace_volume_type = t,
        !.workspace_volume_host_path = h, !.workspace_volume_name = n,
        !.container_volumes_docker = v] :
        m \in BOOLEAN, t \in Optional(WorkspaceVolumeTypes),
        h \in Optional({"/mnt/host"}), n \in Optional({"ws-vol"}),
        v \in UserVolumeDicts}

\* Configurations that vary the Docker port options
DockerPortConfigs ==
    {[DefaultArgs EXCEPT
        !.open_container_port = o, !.container_port = p,
        !.container_host_port = 3333, !.container_ports_docker = d] :
        o \in BOOLEAN, p \in {8080, 9090}, d \in UserPortDicts}

\* env (the inline map) and the variables env_file yields, as the caller
\* may give them, and the secret variables
InlineEnvKeys == {"AWS_REGION", "APP_MODE", PYTHONPATH_ENV_VAR}
FileEnvKeys == {"AWS_REGION", "APP_MODE", PHIDATA_RUNTIME_ENV_VAR}
InlineEnvs == Optional({[k \in K |-> "inline"] : K \in SUBSET InlineEnvKeys})
FileEnvs == Optional({[k \in K |-> "file"] : K \in SUBSET FileEnvKeys})
SecretDatas == Optional({[PASSWORD |-> "p"], [APP_MODE |-> "secret"]})

\* Configurations that vary the sources of the container environment
EnvConfigs ==
    {[DefaultArgs EXCEPT
        !.env = e, !.env_file = f, !.secrets = s, !.aws_region = r,
        !.aws_subnets = Some(<<"subnet-a">>)] :
        e \in InlineEnvs, f \in FileEnvs, s \in SecretDatas,
        r \in Optional({"us-east-1"})}

\* Configurations that vary the env objects of Kubernetes
K8sEnvConfigs ==
    {[DefaultArgs EXCEPT
        !.extra_secrets = s, !.extra_configmaps = c, !.secrets = d,
        !.mount_workspace = g, !.create_git_sync_sidecar = g,
        !.git_sync_repo = Some("https://git/repo"), !.configmap_name = n] :
        s \in ExtraLists("Secret"), c \in ExtraLists("ConfigMap"),
        d \in Optional({[PASSWORD |-> "p"]}), g \in BOOLEAN,
        n \in Optional({"user-cm-1"})}

\* Configurations that vary the ports, Deployments and Services of Kubernetes
K8sWorkloadConfigs ==
    {[DefaultArgs EXCEPT
        !.extra_services = s, !.extra_deployments = d, !.create_service = c,
        !.open_container_port = o, !.extra_ports = p] :
        s \in ExtraLists("Service"), d \in ExtraLists("Deployment"),
        c \in BOOLEAN, o \in BOOLEAN, p \in ExtraLists("Port")}

\* Configurations that vary the port descriptor of Kubernetes
K8sPortConfigs ==
    {[DefaultArgs EXCEPT
        !.open_container_port = o, !.create_service = c,
        !.container_port = p, !.service_target_port = t, !.extra_ports = e] :
        o \in BOOLEAN, c \in BOOLEAN, p \in {8080, 9090},
        t \in Optional({"web"}), e \in ExtraLists("Port")}

\* pod_annotations as the caller may give them
UserAnnotationKeys == {"kubectl.kubernetes.io/default-container", "team"}
UserAnnotation(k) == IF k = "team" THEN "data" ELSE "git-sync"
UserAnnotationDicts ==
    Optional({[k \in K |-> UserAnnotation(k)] : K \in SUBSET UserAnnotationKeys})

\* Configurations that vary the pod annotations of Kubernetes
K8sAnnotationConfigs ==
    {[DefaultArgs EXCEPT !.pod_annotations = p, !.extra_containers = c] :
        p \in UserAnnotationDicts, c \in ExtraLists("Container")}

\* Configurations that vary the workspace mount of Kubernetes
K8sMountConfigs ==
    {[DefaultArgs EXCEPT
        !.mount_workspace = m, !.workspace_volume_type = t,
        !.create_git_sync_sidecar = g, !.git_sync_repo = r,
        !.create_git_sync_init_container = i,
        !.extra_containers = ExtraList("Container", n),
        !.extra_init_containers = ExtraList("InitContainer", n),
        !.extra_volumes = v] :
        m \in BOOLEAN, t \in Optional(WorkspaceVolumeTypes), g \in BOOLEAN,
        r \in Optional({"https://git/repo"}), i \in BOOLEAN,
        n \in -1..MaxExtra, v \in ExtraLists("Volume")}

\* Configurations that vary the lists get_k8s_rg passes through
K8sPassThroughConfigs ==
    {[DefaultArgs EXCEPT
        !.extra_pvs = l, !.extra_pvcs = l, !.extra_storage_classes = l,
        !.extra_custom_objects = l, !.extra_crds = l] :
        l \in ExtraLists("Other")}

\* Configurations that vary the python search path options
PythonPathConfigs ==
    {[DefaultArgs EXCEPT
        !.python_path = p, !.add_python_path = q, !.env = e,
        !.aws_subnets = Some(<<"subnet-a">>)] :
        p \in Optional({"/custom", ""}), q \in Optional({"/extra", ""}),
        e \in Optional({[k \in {PYTHONPATH_ENV_VAR} |-> "inline"]})}

\* Configurations that vary the labels of Kubernetes
K8sLabelConfigs ==
    {[DefaultArgs EXCEPT
        !.container_labels = c, !.deploy_labels = d, !.service_labels = v,
        !.create_service = TRUE] :
        c \in Optional({[tier |-> "web"]}), d \in Optional({[rollout |-> "blue"]}),
        v \in Optional({[lb |-> "ext"]})}

\* RBAC objects supplied by the caller
UserNamespace == CreateNamespace("user-ns", None)
UserServiceAccount == CreateServiceAccount("user-sa", "user-ns")
UserClusterRole == CreateClusterRole("user-cr", <<>>, None)
UserClusterRoleBinding ==
    CreateClusterRoleBinding("user-crb", "user-cr", "user-sa", "user-ns", None)

\* Configurations that vary the RBAC options of Kubernetes
K8sRbacConfigs ==
    {[DefaultArgs EXCEPT
        !.use_rbac = u, !.namespace = ns, !.service_account = sa,
        !.cluster_role = cr, !.cluster_role_binding = crb,
        !.ns_name = n[1], !.sa_name = n[2], !.cr_name = n[3], !.crb_name = n[3],
        !.secrets = Some([PASSWORD |-> "p"]), !.create_service = TRUE] :
        u \in BOOLEAN, ns \in Optional({UserNamespace}),
        sa \in Optional({UserServiceAccount}),
        cr \in Optional({UserClusterRole}),
        crb \in Optional({UserClusterRoleBinding}),
        n \in {<<None, None, None>>, <<Some("apps"), None, Some("app-role")>>,
               <<None, Some("runner"), None>>}}

\* Configurations that vary the AWS options
AwsConfigs ==
    {[DefaultArgs EXCEPT !.aws_subnets = s, !.elb = e, !.ecs_cluster = c] :
        s \in SubnetLists,
        e \in Optional({[name |-> "user-lb", subnets |-> None]}),
        c \in Optional({[name |-> "user-cluster", ecs_cluster_name |-> "user"]})}

Configs ==
    DockerVolumeConfigs \cup DockerPortConfigs \cup EnvConfigs \cup K8sEnvConfigs
    \cup K8sWorkloadConfigs \cup K8sPortConfigs \cup K8sMountConfigs
    \cup K8sAnnotationConfigs \cup K8sPassThroughConfigs \cup K8sRbacConfigs
    \cup PythonPathConfigs \cup K8sLabelConfigs
    \cup AwsConfigs

-----------------------------------------------------------------------------
(* The state machine *)

\* Variant of the storing below that creates the collection before it
\* looks at what the builder returned.
StoreGroupCreatingFirst(groups, call_ret) ==
    IF call_ret.outcome = "raise" THEN groups
    ELSE IF call_ret.rg = None THEN Some(OrEmpty(groups))
    ELSE Some(DictSet(OrEmpty(groups), call_ret.rg[1].name, call_ret.rg[1]))

\* The body of init_*_resource_groups after the builder call: the
\* collection once the builder returned call_ret.  A builder that raised
\* ends the call before the collection is touched.
StoreGroup(groups, call_ret) ==
    IF call_ret.outcome = "raise" \/ call_ret.rg = None THEN groups
    ELSE LET rg == call_ret.rg[1]
             collection == IF groups = None THEN EmptyDict ELSE groups[1]
         IN Some(DictSet(collection, rg.name, rg))

\* A ServerBase constructed from one of the configurations, with or without
\* a workspace root, on which no builder was called yet.
Init ==
    /\ args \in Configs
    /\ workspace_root_path \in Optional({WorkspaceRoot})
    /\ container_paths_ok \in BOOLEAN
    /\ container_paths_ok => workspace_root_path # None
    /\ workspace_root_path = None \/ ~container_paths_ok
         => args \in DockerPortConfigs \cup AwsConfigs
    /\ ret = NoCall
    \* the builders neither read the telemetry setting nor log events
    /\ api_enabled = TRUE
    /\ log = NoLogCall
    \* the collections are None until an init_*_resource_groups call
    /\ docker_resource_groups = None
    /\ k8s_resource_groups = None
    /\ aws_resource_groups = None

\* The extra_* lists get_k8s_rg appends to
GrowingLists(a) ==
    {a.extra_secrets, a.extra_configmaps, a.extra_services, a.extra_deployments,
     a.extra_containers, a.extra_init_containers, a.extra_ports, a.extra_volumes}

GetDockerRg ==
    \E ctx \in BuildContexts :
        LET call == get_docker_rg(args, workspace_root_path, container_paths_ok, ctx)
        IN /\ args' = call.args
           /\ ret' = call.ret
           /\ UNCHANGED <<workspace_root_path, container_paths_ok, api_enabled, log,
                          resource_groups>>

GetK8sRg ==
    \E ctx \in BuildContexts :
        LET call == get_k8s_rg(args, workspace_root_path, container_paths_ok, ctx)
        IN /\ \A l \in GrowingLists(args) : l # None => Len(l[1]) < MaxListLen
           /\ args' = call.args
           /\ ret' = call.ret
           /\ UNCHANGED <<workspace_root_path, container_paths_ok, api_enabled, log,
                          resource_groups>>

GetAwsRg ==
    \E ctx \in BuildContexts :
        LET call == get_aws_rg(args, workspace_root_path, container_paths_ok, ctx)
        IN /\ args' = call.args
           /\ ret' = call.ret
           /\ UNCHANGED <<workspace_root_path, container_paths_ok, api_enabled, log,
                          resource_groups>>

Next == GetDockerRg \/ GetK8sRg \/ GetAwsRg

Spec == Init /\ [][Next]_vars

\* A process in which telemetry is enabled or disabled and
\* log_conversation_event was not called yet; no builder is called in it.
LogInit ==
    /\ args = DefaultArgs
    /\ workspace_root_path = None
    /\ container_paths_ok = FALSE
    /\ ret = NoCall
    /\ api_enabled \in BOOLEAN
    /\ log = NoLogCall
    /\ docker_resource_groups = None
    /\ k8s_resource_groups = None
    /\ aws_resource_groups = None

LogConversationEvent ==
    \E conversation \in ConversationEvents, workspace \in ConversationWorkspaces,
       world \in Worlds :
        /\ log' = log_conversation_event(api_enabled, conversation, workspace, world)
        /\ UNCHANGED <<args, workspace_root_path, container_paths_ok, ret, api_enabled,
                       resource_groups>>

LogNext == LogConversationEvent

LogSpec == LogInit /\ [][LogNext]_vars

\* Configurations built and stored by the init_*_resource_groups calls
GroupConfigs == DockerPortConfigs \cup K8sPortConfigs \cup AwsConfigs

\* An app whose resource-group collections were not initialised yet
GroupInit ==
    /\ args \in GroupConfigs
    /\ workspace_root_path \in Optional({WorkspaceRoot})
    /\ container_paths_ok \in BOOLEAN
    /\ container_paths_ok => workspace_root_path # None
    /\ ret = NoCall
    /\ api_enabled = TRUE
    /\ log = NoLogCall
    /\ docker_resource_groups = None
    /\ k8s_resource_groups = None
    /\ aws_resource_groups = None

InitDockerResourceGroups ==
    \E ctx \in BuildContexts :
        LET call == get_docker_rg(args, workspace_root_path, container_paths_ok, ctx)
        IN /\ args' = call.args
           /\ ret' = call.ret
           /\ docker_resource_groups' = StoreGroup(docker_resource_groups, call.ret)
           /\ UNCHANGED <<workspace_root_path, container_paths_ok, api_enabled, log,
                          k8s_resource_groups, aws_resource_groups>>

InitK8sResourceGroups ==
    \E ctx \in BuildContexts :
        LET call == get_k8s_rg(args, workspace_root_path, container_paths_ok, ctx)
        IN /\ \A l \in GrowingLists(args) : l # None => Len(l[1]) < MaxListLen
           /\ args' = call.args
           /\ ret' = call.ret
           /\ k8s_resource_groups' = StoreGroup(k8s_resource_groups, call.ret)
           /\ UNCHANGED <<workspace_root_path, container_paths_ok, api_enabled, log,
                          docker_resource_groups, aws_resource_groups>>

InitAwsResourceGroups ==
    \E ctx \in BuildContexts :
        LET call == get_aws_rg(args, workspace_root_path, container_paths_ok, ctx)
        IN /\ args' = call.args
           /\ ret' = call.ret
           /\ aws_resource_groups' = StoreGroup(aws_resource_groups, call.ret)
           /\ UNCHANGED <<workspace_root_path, container_paths_ok, api_enabled, log,
                          docker_resource_groups, k8s_resource_groups>>

GroupNext == InitDockerResourceGroups \/ InitK8sResourceGroups \/ InitAwsResourceGroups

GroupSpec == GroupInit /\ [][GroupNext]_vars

-----------------------------------------------------------------------------
(* Properties *)

MultiVpcError == "ValueError: Subnets must be in the same VPC"

\* The builder call just made returned a Docker resource group.
DockerGraph == ret.op = "get_docker_rg" /\ ret.outcome = "graph"

\* The step is a get_docker_rg call that returns a resource group.
DockerGraphStep == ret'.op = "get_docker_rg" /\ ret'.outcome = "graph"

\* The container paths the Docker and Kubernetes builders resolve
ResolvedPaths == get_container_paths(args, workspace_root_path, container_paths_ok, TRUE)[1]

\* The VPC ids the subnets of a list lie in
VpcIdsOf(subnets) == {get_vpc_id(subnets[i]) : i \in DOMAIN subnets}

\* C1: get_docker_rg and get_k8s_rg return None, having constructed no
\* resource object, whenever the build context passed is None or is not a
\* DockerBuildContext / K8sBuildContext respectively.
C1_WrongContextReturnsNone ==
    (\/ ret.op = "get_docker_rg" /\ ret.ctx # "DockerBuildContext"
     \/ ret.op = "get_k8s_rg" /\ ret.ctx # "K8sBuildContext")
    => /\ ret.outcome = "none"
       /\ ret.rg = None
       /\ ret.constructed = <<>>

\* C1 witness: get_docker_rg was given a K8sBuildContext on an app whose
\* workspace root and container paths resolve, and returned None.
C1_Witness ==
    /\ ret.op = "get_docker_rg" /\ ret.ctx = "K8sBuildContext"
    /\ workspace_root_path # None /\ container_paths_ok
    /\ ret.outcome = "none"

\* C2 (as claimed): get_aws_rg returns no graph when the build context
\* passed is None or a context of another platform.  (The claim asks for a
\* None result; that the call returns no graph is the part stated here, so
\* that a call that raises does not count against it.)
C2_AwsWrongContextNoGraph ==
    (ret.op = "get_aws_rg" /\ ret.ctx # "AwsBuildContext")
    => ret.outcome # "graph" /\ ret.rg = None

\* C3 (as claimed): no builder call changes a field of self.args.
C3_ArgsNeverChange == [][args' = args]_vars

\* C4 (as claimed): a builder called again right after it returned a graph,
\* with the same build context, returns a graph with the same contents.
C4_RepeatedBuildSameGraph ==
    [][(/\ ret.outcome = "graph" /\ ret'.outcome = "graph"
        /\ ret'.op = ret.op /\ ret'.ctx = ret.ctx)
       => ret'.rg = ret.rg]_vars

\* C5: when get_aws_rg reaches the subnet lookup (workspace root set,
\* container paths resolved) with a non-empty aws_subnets list, it raises
\* the 'Subnets must be in the same VPC' ValueError, returning no graph, iff
\* the subnets lie in more than one VPC; when they lie in one VPC it returns
\* a graph whose target group has that VPC id.
C5_MultiVpcErrorIffSeveralVpcs ==
    (/\ ret.op = "get_aws_rg"
     /\ workspace_root_path # None /\ container_paths_ok
     /\ args.aws_subnets # None /\ args.aws_subnets[1] # <<>>)
    => LET vpcs == VpcIdsOf(args.aws_subnets[1]) IN
       /\ (ret.outcome = "raise" /\ ret.exc = MultiVpcError) <=> Cardinality(vpcs) > 1
       /\ ret.outcome = "raise" => ret.rg = None
       /\ Cardinality(vpcs) = 1 =>
            /\ ret.outcome = "graph"
            /\ vpcs = {ret.rg[1].target_groups[1].vpc_id}

\* C5 witness: get_aws_rg on subnets of two VPCs raised the multi-VPC error
\* at the second lookup.
C5_Witness ==
    /\ ret.op = "get_aws_rg"
    /\ args.aws_subnets = Some(<<"subnet-a", "subnet-c">>)
    /\ ret.outcome = "raise" /\ ret.exc = MultiVpcError
    /\ ret.lookups = <<"subnet-a", "subnet-c">>

\* C6 (as claimed): the only exception a builder lets escape is the
\* multi-VPC ValueError of get_aws_rg.
C6_OnlyMultiVpcErrorEscapes ==
    ret.outcome = "raise" => ret.op = "get_aws_rg" /\ ret.exc = MultiVpcError

\* C7 (as claimed): get_k8s_rg with mount_workspace, EmptyDir,
\* create_git_sync_sidecar and no git_sync_repo returns no resource graph.
C7_GitSyncWithoutRepoFails ==
    (/\ ret.op = "get_k8s_rg"
     /\ args.mount_workspace
     /\ args.workspace_volume_type = Some("EmptyDir")
     /\ args.create_git_sync_sidecar
     /\ args.git_sync_repo = None)
    => ret.outcome # "graph" /\ ret.rg = None

\* C8 (as claimed): get_docker_rg with mount_workspace and EmptyDir returns
\* no Docker resource graph.
C8_DockerEmptyDirFails ==
    (/\ ret.op = "get_docker_rg"
     /\ args.mount_workspace
     /\ args.workspace_volume_type = Some("EmptyDir"))
    => ret.outcome # "graph" /\ ret.rg = None

\* C8 (amended): a get_docker_rg call that passes the context and path
\* checks with mount_workspace and EmptyDir returns a graph whose container
\* has the caller's volumes plus one read-write volume, keyed by
\* workspace_volume_name (else the default name made from the workspace
\* root's stem) and bound to the container workspace root; only a volume
\* type other than HostPath and EmptyDir makes the call return None.
C8_DockerEmptyDirNamedVolume ==
    [][(/\ ret'.op = "get_docker_rg"
        /\ ret'.ctx = "DockerBuildContext"
        /\ workspace_root_path # None /\ container_paths_ok
        /\ args.mount_workspace /\ args.workspace_volume_type # None)
       => LET user == OrEmpty(args.container_volumes_docker)
              name == IF args.workspace_volume_name # None
                      THEN args.workspace_volume_name[1]
                      ELSE get_default_volume_name(
                               "spark-" \o workspace_root_path[1].stem \o "-ws")
          IN /\ args.workspace_volume_type[1] = "EmptyDir" =>
                  /\ ret'.outcome = "graph"
                  /\ LET vols == ret'.rg[1].containers[1].volumes IN
                     /\ vols # None
                     /\ DOMAIN vols[1] = DOMAIN user \cup {name}
                     /\ vols[1][name] = [bind |-> ResolvedPaths.workspace_root, mode |-> "rw"]
                     /\ \A k \in DOMAIN user \ {name} : vols[1][k] = user[k]
             /\ ret'.outcome = "none" <=>
                  args.workspace_volume_type[1] \notin {"HostPath", "EmptyDir"}]_vars

\* C8 witness: get_docker_rg with mount_workspace, EmptyDir and no
\* workspace_volume_name returned a graph whose container mounts the default
\* named volume.
C8_Witness ==
    /\ DockerGraph
    /\ args.mount_workspace
    /\ args.workspace_volume_type = Some("EmptyDir")
    /\ args.workspace_volume_name = None
    /\ "spark-proj-ws-volume" \in DOMAIN ret.rg[1].containers[1].volumes[1]

\* C9: a get_docker_rg call that returns a graph with mount_workspace and
\* workspace_volume_type unset or HostPath gives the container the caller's
\* volumes plus exactly one read-write bind mount of
\* workspace_volume_host_path (else the local workspace root) at the
\* container workspace root, caller entries under other keys unchanged;
\* without mount_workspace the container's volumes are exactly the caller's
\* (None when there are none).
C9_DockerHostPathBindMount ==
    [][DockerGraphStep
       => LET user == OrEmpty(args.container_volumes_docker)
              vols == ret'.rg[1].containers[1].volumes
              host == IF args.workspace_volume_host_path # None
                      THEN args.workspace_volume_host_path[1]
                      ELSE workspace_root_path[1].parent \o "/" \o workspace_root_path[1].stem
          IN /\ (/\ args.mount_workspace
                 /\ (args.workspace_volume_type = None
                     \/ args.workspace_volume_type = Some("HostPath")))
                => /\ vols # None
                   /\ DOMAIN vols[1] = DOMAIN user \cup {host}
                   /\ vols[1][host] = [bind |-> ResolvedPaths.workspace_root, mode |-> "rw"]
                   /\ \A k \in DOMAIN user \ {host} : vols[1][k] = user[k]
             /\ ~args.mount_workspace
                => vols = (IF DOMAIN user = {} THEN None ELSE Some(user))]_vars

\* C9 witness: get_docker_rg with mount_workspace, no volume type and no
\* host path returned a container that keeps the caller's "/var/www" volume
\* and binds the local workspace root.
C9_Witness ==
    /\ DockerGraph
    /\ args.mount_workspace
    /\ args.workspace_volume_type = None
    /\ args.workspace_volume_host_path = None
    /\ DOMAIN ret.rg[1].containers[1].volumes[1] = {"/var/www", "/home/user/proj"}
    /\ ret.rg[1].containers[1].volumes[1]["/var/www"] = [bind |-> "/mnt/vol1", mode |-> "ro"]

\* C10 (as claimed): a get_docker_rg call that returns a graph with
\* open_container_port gives the container the binding
\* str(container_port) -> container_host_port and every caller-supplied
\* binding with its value unchanged; without open_container_port the map is
\* exactly the caller's (None when empty).
C10_DockerPortsKeepEveryCallerEntry ==
    [][DockerGraphStep
       => LET user == OrEmpty(args.container_ports_docker)
              ports == ret'.rg[1].containers[1].ports
              key == PortStr(args.container_port)
          IN /\ args.open_container_port
                => /\ ports # None
                   /\ key \in DOMAIN ports[1]
                   /\ ports[1][key] = args.container_host_port
                   /\ \A k \in DOMAIN user :
                        k \in DOMAIN ports[1] /\ ports[1][k] = user[k]
             /\ ~args.open_container_port
                => ports = (IF DOMAIN user = {} THEN None ELSE Some(user))]_vars

\* C10 (amended): as C10, but the caller-supplied bindings kept unchanged
\* are those whose key differs from str(container_port); the map holds
\* nothing else.
C10_DockerPortsKeepOtherCallerEntries ==
    [][DockerGraphStep
       => LET user == OrEmpty(args.container_ports_docker)
              ports == ret'.rg[1].containers[1].ports
              key == PortStr(args.container_port)
          IN /\ args.open_container_port
                => /\ ports # None
                   /\ DOMAIN ports[1] = DOMAIN user \cup {key}
                   /\ ports[1][key] = args.container_host_port
                   /\ \A k \in DOMAIN user \ {key} : ports[1][k] = user[k]
             /\ ~args.open_container_port
                => ports = (IF DOMAIN user = {} THEN None ELSE Some(user))]_vars

\* C10 witness: get_docker_rg with open_container_port, container_port 8080
\* and host port 3333 returned a container binding "8080" to 3333 beside
\* the caller's "2222/tcp" binding.
C10_Witness ==
    /\ DockerGraph
    /\ args.open_container_port
    /\ args.container_port = 8080
    /\ ret.rg[1].containers[1].ports = Some([k \in {"8080", "2222/tcp"} |-> 3333])

\* The step is a get_k8s_rg call that returns a resource group.
K8sGraphStep == ret'.op = "get_k8s_rg" /\ ret'.outcome = "graph"

\* The builder call just made returned a Kubernetes resource group.
K8sGraph == ret.op = "get_k8s_rg" /\ ret.outcome = "graph"

\* The last entry of a non-empty Optional list
LastOf(opt) == opt[1][Len(opt[1])]

\* C11: a get_k8s_rg call that returns a graph with open_container_port
\* attaches to the primary container (the first container of the generated
\* Deployment) a port descriptor named container_port_name with the
\* configuration's container_port and service_port and target port
\* service_target_port if set, else the port name; with create_service the
\* graph's services end with a generated Service that names the generated
\* Deployment and carries the primary container's port list; without
\* create_service the services are exactly the caller's.
C11_K8sPortAndService ==
    [][K8sGraphStep
       => LET rg == ret'.rg[1]
              deployment == LastOf(rg.deployments)
              primary == deployment.containers[1]
              port == [kind |-> "Port", name |-> args.container_port_name,
                       container_port |-> args.container_port,
                       service_port |-> args.service_port,
                       target_port |-> IF args.service_target_port # None
                                       THEN args.service_target_port[1]
                                       ELSE args.container_port_name]
          IN /\ args.open_container_port
                => /\ primary.ports # None
                   /\ LastOf(primary.ports) = port
             /\ args.create_service
                => /\ rg.services # None
                   /\ LastOf(rg.services).name = get_service_name(args)
                   /\ LastOf(rg.services).deployment = deployment.name
                   /\ LastOf(rg.services).ports = primary.ports
                   /\ Len(rg.services[1]) = Len(OrEmptyList(args.extra_services)) + 1
             /\ ~args.create_service
                => rg.services = NoneIfEmpty(OrEmptyList(args.extra_services))]_vars

\* C11 witness: get_k8s_rg with open_container_port, container_port 8080,
\* service_port 8000, service_target_port "web" and create_service returned
\* a graph whose Service exposes that port and names the Deployment.
C11_Witness ==
    /\ K8sGraph
    /\ args.open_container_port /\ args.create_service
    /\ args.service_target_port = Some("web")
    /\ LastOf(ret.rg[1].services).deployment = "server-deploy"
    /\ LastOf(LastOf(ret.rg[1].services).ports) =
           [kind |-> "Port", name |-> "http", container_port |-> 8080,
            service_port |-> 8000, target_port |-> "web"]

\* The step is a get_aws_rg call that returns a resource group.
AwsGraphStep == ret'.op = "get_aws_rg" /\ ret'.outcome = "graph"

\* The builder call just made returned an AWS resource group.
AwsGraph == ret.op = "get_aws_rg" /\ ret.outcome = "graph"

\* The container paths the AWS builder resolves
AwsResolvedPaths == get_container_paths(args, workspace_root_path, container_paths_ok, FALSE)[1]

\* The map that holds exactly the keys of the sources, each with the value
\* of the last source that defines it
Layered(sources) ==
    [k \in UNION {DOMAIN sources[i] : i \in DOMAIN sources} |->
        LET last == CHOOSE i \in DOMAIN sources :
                        /\ k \in DOMAIN sources[i]
                        /\ \A j \in DOMAIN sources : j > i => k \notin DOMAIN sources[j]
        IN sources[last][k]]

\* The AWS-derived variables of the configuration
AwsVars == set_aws_env_vars(args, EmptyDict)

\* The data of the ConfigMap a get_k8s_rg call generated
GeneratedConfigMapData(rg) == LastOf(rg.config_maps).data

\* C12: the data of the ConfigMap a get_k8s_rg call generates holds exactly
\* the keys of the base runtime variables, the AWS-derived variables, the
\* env file's variables and the inline env map, each key with the value of
\* the highest of these sources, in this order, that defines it.
C12_K8sEnvPrecedence ==
    [][K8sGraphStep
       => /\ LastOf(ret'.rg[1].config_maps).name = K8sConfigMapName(args)
          /\ GeneratedConfigMapData(ret'.rg[1]) =
                Layered(<<K8sBaseEnv(args, ResolvedPaths), AwsVars,
                          OrEmpty(args.env_file), OrEmpty(args.env)>>)]_vars

\* C12 witness: get_k8s_rg on a configuration with an AWS region, an env
\* file defining AWS_REGION, APP_MODE and PHIDATA_RUNTIME and an inline env
\* defining AWS_REGION and PYTHONPATH generated a ConfigMap in which inline
\* wins AWS_REGION and PYTHONPATH, the file wins PHIDATA_RUNTIME and APP_MODE
\* and the AWS and base variables defined once keep their values.
C12_Witness ==
    /\ K8sGraph
    /\ args.aws_region = Some("us-east-1")
    /\ args.env_file # None /\ args.env # None
    /\ DOMAIN args.env_file[1] = {"AWS_REGION", "APP_MODE", "PHIDATA_RUNTIME"}
    /\ DOMAIN args.env[1] = {"AWS_REGION", "PYTHONPATH"}
    /\ LET data == GeneratedConfigMapData(ret.rg[1]) IN
       /\ data["AWS_REGION"] = "inline" /\ data["PYTHONPATH"] = "inline"
       /\ data["PHIDATA_RUNTIME"] = "file" /\ data["APP_MODE"] = "file"
       /\ data["AWS_DEFAULT_REGION"] = "us-east-1"
       /\ data["MOUNT_WORKSPACE"] = "False"
       /\ Cardinality(DOMAIN data) = 18

\* The environment list holds exactly one name/value pair per key of env.
IsPairsOf(environment, env) ==
    /\ Len(environment) = Cardinality(DOMAIN env)
    /\ \A k \in DOMAIN env :
          \E i \in DOMAIN environment :
              /\ environment[i] = [name |-> k, value |-> env[k]]
              /\ \A j \in DOMAIN environment : environment[j].name = k => j = i

\* C13: get_docker_rg given a DockerBuildContext and get_aws_rg given an
\* AwsBuildContext, on an app whose workspace root and container paths
\* resolve and whose configuration is valid (for Docker: the workspace is
\* not mounted or its volume type is unset, HostPath or EmptyDir; for AWS:
\* a non-empty aws_subnets list in one VPC), return a graph with exactly one
\* container descriptor; the Docker container's environment is the map that
\* layers base < AWS-derived < env file < secrets < inline, and the ECS
\* container's environment holds exactly one name/value pair per key of the
\* map layered the same way.
C13_ContainerCarriesMergedEnv ==
    [][(workspace_root_path # None /\ container_paths_ok)
       => /\ (/\ ret'.op = "get_docker_rg" /\ ret'.ctx = "DockerBuildContext"
              /\ (args.mount_workspace =>
                     args.workspace_volume_type \in
                         {None, Some("HostPath"), Some("EmptyDir")}))
             => /\ ret'.outcome = "graph"
                /\ Len(ret'.rg[1].containers) = 1
                /\ ret'.rg[1].containers[1].environment =
                      Layered(<<DockerBaseEnv(args, ResolvedPaths), AwsVars,
                                OrEmpty(args.env_file), OrEmpty(args.secrets),
                                OrEmpty(args.env)>>)
          /\ (/\ ret'.op = "get_aws_rg" /\ ret'.ctx = "AwsBuildContext"
              /\ args.aws_subnets # None
              /\ Cardinality(VpcIdsOf(args.aws_subnets[1])) = 1)
             => /\ ret'.outcome = "graph"
                /\ Len(ret'.rg[1].ecs_task_definitions) = 1
                /\ Len(ret'.rg[1].ecs_task_definitions[1].containers) = 1
                /\ IsPairsOf(ret'.rg[1].ecs_task_definitions[1].containers[1].environment,
                             Layered(<<AwsBaseEnv(args, AwsResolvedPaths), AwsVars,
                                       OrEmpty(args.env_file), OrEmpty(args.secrets),
                                       OrEmpty(args.env)>>))]_vars

\* C13 witness: get_aws_rg on a configuration with subnets in one VPC, a
\* secret APP_MODE and an inline env defining APP_MODE returned a graph
\* whose container environment pairs APP_MODE with the inline value only.
C13_Witness ==
    /\ AwsGraph /\ ret.ctx = "AwsBuildContext"
    /\ args.secrets = Some([APP_MODE |-> "secret"])
    /\ args.env_file # None /\ "APP_MODE" \in DOMAIN args.env_file[1]
    /\ args.env # None /\ "APP_MODE" \in DOMAIN args.env[1]
    /\ LET environment == ret.rg[1].ecs_task_definitions[1].containers[1].environment IN
       /\ \E i \in DOMAIN environment :
             environment[i] = [name |-> "APP_MODE", value |-> "inline"]
       /\ Cardinality({i \in DOMAIN environment : environment[i].name = "APP_MODE"}) = 1

\* The keys of the variable contract
ContractKeys ==
    {PYTHONPATH_ENV_VAR, PHIDATA_RUNTIME_ENV_VAR, SCRIPTS_DIR_ENV_VAR,
     STORAGE_DIR_ENV_VAR, META_DIR_ENV_VAR, PRODUCTS_DIR_ENV_VAR,
     NOTEBOOKS_DIR_ENV_VAR, WORKFLOWS_DIR_ENV_VAR, WORKSPACE_ROOT_ENV_VAR,
     WORKSPACES_MOUNT_ENV_VAR, WORKSPACE_CONFIG_DIR_ENV_VAR,
     "INSTALL_REQUIREMENTS", "REQUIREMENTS_FILE_PATH", "MOUNT_WORKSPACE",
     "PRINT_ENV_ON_LOAD"}

\* The keys of the environment the graph just returned gives the container
EnvKeysOfGraph ==
    CASE ret.op = "get_docker_rg" -> DOMAIN ret.rg[1].containers[1].environment
      [] ret.op = "get_k8s_rg" -> DOMAIN GeneratedConfigMapData(ret.rg[1])
      [] OTHER ->
           LET environment == ret.rg[1].ecs_task_definitions[1].containers[1].environment
           IN {environment[i].name : i \in DOMAIN environment}

\* C14 (as claimed): the environment of every graph a builder returns holds
\* every key of the variable contract.
C14_EveryBuilderSetsContractKeys ==
    ret.outcome = "graph" => ContractKeys \subseteq EnvKeysOfGraph

\* C14 (amended): the environment of every graph get_docker_rg or
\* get_k8s_rg returns holds every key of the variable contract; that of
\* every graph get_aws_rg returns holds every key of the contract other
\* than the python search path variable, and holds that one only when the
\* env file, the secrets or the inline env map define it.
C14_ContractKeysExceptEcsPythonPath ==
    ret.outcome = "graph" =>
        IF ret.op = "get_aws_rg"
        THEN /\ ContractKeys \ {PYTHONPATH_ENV_VAR} \subseteq EnvKeysOfGraph
             /\ PYTHONPATH_ENV_VAR \in EnvKeysOfGraph
                  <=> PYTHONPATH_ENV_VAR \in
                          DOMAIN OrEmpty(args.env_file) \cup DOMAIN OrEmpty(args.secrets)
                          \cup DOMAIN OrEmpty(args.env)
        ELSE ContractKeys \subseteq EnvKeysOfGraph

\* C14 witness: get_aws_rg on a configuration with no inline env returned a
\* graph whose container environment has the fourteen other keys of the
\* contract and no python search path variable.
C14_Witness ==
    /\ AwsGraph
    /\ args.env = None
    /\ EnvKeysOfGraph = ContractKeys \ {PYTHONPATH_ENV_VAR}

DefaultContainerKey == "kubectl.kubernetes.io/default-container"

\* The Deployment of the graph a get_k8s_rg call just returned
GeneratedDeployment == LastOf(ret.rg[1].deployments)

\* C15 (as claimed): in every graph get_k8s_rg returns, the generated
\* Deployment's pod annotation kubectl.kubernetes.io/default-container is
\* the name of the primary container.
C15_DefaultContainerIsPrimary ==
    K8sGraph =>
        /\ DefaultContainerKey \in DOMAIN GeneratedDeployment.pod_annotations
        /\ GeneratedDeployment.pod_annotations[DefaultContainerKey]
             = GeneratedDeployment.containers[1].name

\* C15 (amended): in every graph get_k8s_rg returns, the generated
\* Deployment's pod annotations are the caller's pod_annotations plus the
\* key kubectl.kubernetes.io/default-container, whose value is the caller's
\* when pod_annotations defines that key and the name of the primary
\* container (the Deployment's first container) otherwise.
C15_DefaultContainerUnlessCallerSetsIt ==
    K8sGraph =>
        LET user == OrEmpty(args.pod_annotations)
            annotations == GeneratedDeployment.pod_annotations
        IN /\ DOMAIN annotations = DOMAIN user \cup {DefaultContainerKey}
           /\ \A k \in DOMAIN user : annotations[k] = user[k]
           /\ DefaultContainerKey \notin DOMAIN user
                => /\ annotations[DefaultContainerKey] = GeneratedDeployment.containers[1].name
                   /\ annotations[DefaultContainerKey] = get_container_name(args)

\* C15 witness: get_k8s_rg on a configuration whose pod_annotations define
\* only "team" returned a Deployment annotated with the primary container's
\* name and the caller's "team".
C15_Witness ==
    /\ K8sGraph
    /\ args.pod_annotations = Some([team |-> "data"])
    /\ GeneratedDeployment.pod_annotations[DefaultContainerKey] = "server-container"
    /\ GeneratedDeployment.pod_annotations["team"] = "data"

\* All of a call's steps went well.
AllWentWell(world) ==
    /\ world.client = "ok" /\ world.dump = "ok" /\ world.post = "ok"
    /\ world.invalid_response = "valid" /\ world.json = "object"
    /\ world.model_validate = "ok"

\* The requests a call sent
PostsOf(events) == {i \in DOMAIN events : events[i].kind = "post"}

\* C16 (as claimed): log_conversation_event never raises to its caller,
\* whichever of its steps fail.
C16_LogNeverRaises ==
    log.called => log.outcome \in {"response", "none"}

\* C17: when api_enabled is false, log_conversation_event returns None
\* having opened no API client and sent no request; a call that opened a
\* client or sent a request ran with api_enabled true.
C17_DisabledIsNoOp ==
    /\ (log.called /\ ~api_enabled)
         => /\ log.outcome = "none" /\ log.response = None
            /\ log.events = <<>> /\ log.debug = <<>>
    /\ log.events # <<>> => api_enabled

\* C17 witness: a call made with telemetry disabled, in a world where every
\* step would have gone well, returned None and touched no client.
C17_Witness ==
    /\ log.called /\ ~api_enabled
    /\ AllWentWell(log.world)
    /\ log.outcome = "none" /\ log.events = <<>>

C19_AtMostOnePostAndClientClosed ==
    log.called =>
        /\ Cardinality(PostsOf(log.events)) <= 1
        /\ \A i \in PostsOf(log.events) : log.events[i].route = CONVERSATION_EVENT
        /\ log.events # <<>> =>
             /\ log.events[1] = OpenClient
             /\ log.events[Len(log.events)] = CloseClient
             /\ \A i \in DOMAIN log.events :
                   /\ log.events[i] = OpenClient => i = 1
                   /\ log.events[i] = CloseClient => i = Len(log.events)
        /\ log.outcome \in {"response", "none"} /\ api_enabled => log.events # <<>>

\* C19 witness: a call whose POST raised sent that one request, logged the
\* failure, closed its client and returned None.
C19_Witness ==
    /\ log.called /\ api_enabled
    /\ log.world.client = "ok" /\ log.world.dump = "ok" /\ log.world.post = "raises"
    /\ Len(log.events) = 3
    /\ log.events[2].kind = "post" /\ log.events[3] = CloseClient
    /\ log.debug = <<CouldNotLog>>
    /\ log.outcome = "none"

\* The Optional list `got` is the list `caller` followed by n more entries.
IsExtended(got, caller, n) ==
    IF Len(caller) + n = 0 THEN got = None
    ELSE /\ got # None
         /\ Len(got[1]) = Len(caller) + n
         /\ SubSeq(got[1], 1, Len(caller)) = caller

\* C20: in the graph a get_k8s_rg call returns, the secrets, config_maps,
\* services and deployments lists are the lists self.args.extra_secrets,
\* extra_configmaps, extra_services and extra_deployments the call found,
\* entry by entry and in order, followed by what the call generated (a
\* Secret iff there is secret data, a ConfigMap, a Service iff
\* create_service, a Deployment), also when a generated object has the name
\* of a caller-supplied one; the pvs, pvcs, storage_classes, custom_objects
\* and crds lists are the caller's (None when empty).
C20_ExtrasKeptGeneratedAppended ==
    [][K8sGraphStep
       => LET rg == ret'.rg[1] IN
          /\ IsExtended(rg.secrets, OrEmptyList(args.extra_secrets),
                        IF args.secrets # None THEN 1 ELSE 0)
          /\ args.secrets # None
               => /\ LastOf(rg.secrets).name = K8sSecretName(args)
                  /\ LastOf(rg.secrets).string_data = args.secrets[1]
          /\ IsExtended(rg.config_maps, OrEmptyList(args.extra_configmaps), 1)
          /\ LastOf(rg.config_maps).name = K8sConfigMapName(args)
          /\ IsExtended(rg.services, OrEmptyList(args.extra_services),
                        IF args.create_service THEN 1 ELSE 0)
          /\ args.create_service => LastOf(rg.services).name = get_service_name(args)
          /\ IsExtended(rg.deployments, OrEmptyList(args.extra_deployments), 1)
          /\ LastOf(rg.deployments).name = get_deploy_name(args)
          /\ rg.pvs = NoneIfEmpty(OrEmptyList(args.extra_pvs))
          /\ rg.pvcs = NoneIfEmpty(OrEmptyList(args.extra_pvcs))
          /\ rg.storage_classes = NoneIfEmpty(OrEmptyList(args.extra_storage_classes))
          /\ rg.custom_objects = NoneIfEmpty(OrEmptyList(args.extra_custom_objects))
          /\ rg.crds = NoneIfEmpty(OrEmptyList(args.extra_crds))]_vars

\* C20 witness: get_k8s_rg on a configuration whose extra_configmaps hold
\* "user-cm-1" and whose configmap_name is "user-cm-1" too returned a graph
\* with both ConfigMaps of that name, the caller's first.
C20_Witness ==
    /\ K8sGraph
    /\ args.configmap_name = Some("user-cm-1")
    /\ Len(ret.rg[1].config_maps[1]) = 2
    /\ ret.rg[1].config_maps[1][1] = UserConfigMap(1)
    /\ ret.rg[1].config_maps[1][2].name = "user-cm-1"
    /\ ret.rg[1].config_maps[1][2].namespace = "default"

\* The Deployment of the graph the step's get_k8s_rg call returns
GeneratedDeploymentOfStep == LastOf(ret'.rg[1].deployments)

\* The entries of an Optional list after its first n
Beyond(opt, n) == IF opt = None THEN <<>> ELSE SubSeq(opt[1], n + 1, Len(opt[1]))

\* The names of the entries of a list
NameSeq(objs) == [i \in DOMAIN objs |-> objs[i].name]

\* C21: what a get_k8s_rg call that returns a graph adds to the extra
\* volumes, containers and init containers it found.  With mount_workspace
\* and HostPath: one HOST_PATH volume mounted at the container workspace
\* root with the local workspace root as host path, and no git-sync
\* container.  With mount_workspace and EmptyDir: one EMPTY_DIR volume
\* mounted at the container workspace parent, a "git-sync" container iff
\* create_git_sync_sidecar is set and git_sync_repo is given, and a
\* "git-sync-init" init container iff that sidecar is created and
\* create_git_sync_init_container is set.  Without mount_workspace: nothing.
C21_K8sMountPlan ==
    [][K8sGraphStep
       => LET deployment == GeneratedDeploymentOfStep
              new_volumes == Beyond(deployment.volumes, Len(OrEmptyList(args.extra_volumes)))
              new_containers ==
                  Beyond(Some(deployment.containers),
                         1 + Len(OrEmptyList(args.extra_containers)))
              new_init_containers ==
                  Beyond(deployment.init_containers,
                         Len(OrEmptyList(args.extra_init_containers)))
              sidecar == args.create_git_sync_sidecar /\ args.git_sync_repo # None
          IN /\ (args.mount_workspace /\ args.workspace_volume_type = Some("HostPath"))
                => /\ Len(new_volumes) = 1
                   /\ new_volumes[1].volume_type = "HOST_PATH"
                   /\ new_volumes[1].mount_path = ResolvedPaths.workspace_root
                   /\ new_volumes[1].host_path = Some(PathStr(workspace_root_path[1]))
                   /\ new_containers = <<>> /\ new_init_containers = <<>>
             /\ (args.mount_workspace /\ args.workspace_volume_type = Some("EmptyDir"))
                => /\ Len(new_volumes) = 1
                   /\ new_volumes[1].volume_type = "EMPTY_DIR"
                   /\ new_volumes[1].mount_path = ResolvedPaths.workspace_parent
                   /\ new_volumes[1].host_path = None
                   /\ NameSeq(new_containers)
                        = (IF sidecar THEN <<"git-sync">> ELSE <<>>)
                   /\ NameSeq(new_init_containers)
                        = (IF sidecar /\ args.create_git_sync_init_container
                           THEN <<"git-sync-init">> ELSE <<>>)
             /\ ~args.mount_workspace
                => /\ new_volumes = <<>>
                   /\ new_containers = <<>> /\ new_init_containers = <<>>]_vars

\* C21 witness: get_k8s_rg with mount_workspace, EmptyDir, a git-sync
\* sidecar with a repository and an init container returned a Deployment
\* with the primary container, the sidecar and the init container.
C21_Witness ==
    /\ K8sGraph
    /\ args.mount_workspace /\ args.workspace_volume_type = Some("EmptyDir")
    /\ args.create_git_sync_sidecar /\ args.git_sync_repo # None
    /\ args.create_git_sync_init_container
    /\ NameSeq(GeneratedDeployment.containers) = <<"server-container", "git-sync">>
    /\ NameSeq(GeneratedDeployment.init_containers[1]) = <<"git-sync-init">>
    /\ GeneratedDeployment.volumes[1][1].volume_type = "EMPTY_DIR"

\* The builders
Builders == {"get_docker_rg", "get_k8s_rg", "get_aws_rg"}

\* C22: a builder called while the workspace root path is unset or the
\* container paths cannot be resolved returns None, has looked up no
\* subnet and constructed no resource object, and leaves the configuration
\* and the three resource-group collections as they were.
C22_UnresolvedPathsBuildNothing ==
    [][(ret'.op \in Builders /\ (workspace_root_path = None \/ ~container_paths_ok))
       => /\ ret'.outcome = "none" /\ ret'.rg = None
          /\ ret'.constructed = <<>> /\ ret'.lookups = <<>>
          /\ args' = args
          /\ resource_groups' = resource_groups]_vars

\* C22 witness: get_aws_rg, called with subnets configured and with the
\* workspace root path unset, returned None after logging that.
C22_Witness ==
    /\ ret.op = "get_aws_rg" /\ ret.outcome = "none"
    /\ workspace_root_path = None
    /\ args.aws_subnets # None
    /\ ret.logged = <<"Invalid workspace_root_path">>
    /\ ret.lookups = <<>>

\* The value of the runtime-kind variable in the environment the graph just
\* returned gives the container
RuntimeOfGraph ==
    CASE ret.op = "get_docker_rg" ->
           ret.rg[1].containers[1].environment[PHIDATA_RUNTIME_ENV_VAR]
      [] ret.op = "get_k8s_rg" ->
           GeneratedConfigMapData(ret.rg[1])[PHIDATA_RUNTIME_ENV_VAR]
      [] OTHER ->
           LET environment == ret.rg[1].ecs_task_definitions[1].containers[1].environment
           IN environment[CHOOSE i \in DOMAIN environment :
                              environment[i].name = PHIDATA_RUNTIME_ENV_VAR].value

\* The runtime kind of the builder just called
PlatformOfBuilder ==
    CASE ret.op = "get_docker_rg" -> "docker"
      [] ret.op = "get_k8s_rg" -> "kubernetes"
      [] OTHER -> "ecs"

\* The caller's sources of the environment the builder just called reads,
\* lowest first
CallerEnvSources ==
    IF ret.op = "get_k8s_rg"
    THEN <<OrEmpty(args.env_file), OrEmpty(args.env)>>
    ELSE <<OrEmpty(args.env_file), OrEmpty(args.secrets), OrEmpty(args.env)>>

\* C23 (as claimed): in the environment of every graph a builder returns
\* the runtime-kind variable has the value of the builder's platform:
\* "docker", "kubernetes" or "ecs".
C23_RuntimeKindIsPlatform ==
    ret.outcome = "graph" => RuntimeOfGraph = PlatformOfBuilder

\* C23 (amended): in the environment of every graph a builder returns the
\* runtime-kind variable has the value of the builder's platform unless
\* the env file, the secrets (Docker, ECS) or the inline env map define
\* that variable; then it has the value of the highest of these sources
\* that defines it.
C23_RuntimeKindIsPlatformUnlessCallerSetsIt ==
    ret.outcome = "graph" =>
        RuntimeOfGraph =
            Layered(<<[k \in {PHIDATA_RUNTIME_ENV_VAR} |-> PlatformOfBuilder]>>
                    \o CallerEnvSources)[PHIDATA_RUNTIME_ENV_VAR]

\* C23 witness: get_aws_rg on a configuration whose env file and inline env
\* map define keys of their own, none of them the runtime-kind variable,
\* returned a graph whose container environment says "ecs".
C23_Witness ==
    /\ AwsGraph
    /\ args.env_file # None /\ args.env # None
    /\ DOMAIN args.env_file[1] = {"AWS_REGION", "APP_MODE"}
    /\ DOMAIN args.env[1] = {"APP_MODE", "PYTHONPATH"}
    /\ RuntimeOfGraph = "ecs"

\* The call just made constructed an object of the kind
Constructed(kind) == \E i \in DOMAIN ret.constructed : ret.constructed[i] = kind

\* The RBAC objects of a graph
RbacOf(rg) == [ns |-> rg.ns, sa |-> rg.sa, cr |-> rg.cr, crb |-> rg.crb]

\* C24: in every graph get_k8s_rg returns, with use_rbac unset the
\* namespace, service account, cluster role and cluster role binding are
\* the caller's objects, absent when not supplied, and the generated
\* Deployment has the namespace ns_name, else the context's, and the
\* service-account name sa_name, else the context's; with use_rbac set all
\* four are present, each the caller's object when supplied and else an
\* object of its kind the call generated.
C24_RbacOnlyWhenUsed ==
    K8sGraph =>
        LET rg == ret.rg[1] IN
        IF ~args.use_rbac
        THEN /\ RbacOf(rg) = [ns |-> args.namespace, sa |-> args.service_account,
                              cr |-> args.cluster_role,
                              crb |-> args.cluster_role_binding]
             /\ ~Constructed("CreateNamespace")
             /\ ~Constructed("CreateServiceAccount")
             /\ ~Constructed("CreateClusterRole")
             /\ ~Constructed("CreateClusterRoleBinding")
             /\ GeneratedDeployment.namespace
                  = (IF args.ns_name # None THEN args.ns_name[1]
                     ELSE ret.context.namespace)
             /\ GeneratedDeployment.service_account_name
                  = (IF args.sa_name # None THEN args.sa_name[1]
                     ELSE ret.context.service_account_name)
        ELSE /\ rg.ns # None /\ rg.sa # None /\ rg.cr # None /\ rg.crb # None
             /\ rg.ns[1].kind = "Namespace" /\ rg.sa[1].kind = "ServiceAccount"
             /\ rg.cr[1].kind = "ClusterRole"
             /\ rg.crb[1].kind = "ClusterRoleBinding"
             /\ args.namespace # None => rg.ns = args.namespace
             /\ args.service_account # None => rg.sa = args.service_account
             /\ args.cluster_role # None => rg.cr = args.cluster_role
             /\ args.cluster_role_binding # None => rg.crb = args.cluster_role_binding
             /\ Constructed("CreateNamespace") <=> args.namespace = None
             /\ Constructed("CreateServiceAccount")
                  <=> args.service_account = None
             /\ Constructed("CreateClusterRole")
                  <=> args.cluster_role = None
             /\ Constructed("CreateClusterRoleBinding")
                  <=> args.cluster_role_binding = None

\* C24 witness: get_k8s_rg without use_rbac, given a cluster role only and
\* an ns_name, returned a graph with that cluster role and no namespace,
\* service account or binding, whose Deployment is in the namespace ns_name.
C24_Witness ==
    /\ K8sGraph
    /\ ~args.use_rbac
    /\ args.cluster_role = Some(UserClusterRole)
    /\ args.namespace = None /\ args.ns_name = Some("apps")
    /\ RbacOf(ret.rg[1]) = [ns |-> None, sa |-> None, cr |-> Some(UserClusterRole),
                            crb |-> None]
    /\ GeneratedDeployment.namespace = "apps"
    /\ GeneratedDeployment.service_account_name = "default-sa"

\* C25: every graph get_aws_rg returns lists one cluster, one task
\* definition, one service, one load balancer, one target group and one
\* listener; the service references that cluster, task definition and
\* target group and forces deletion and new deployments; the listener
\* references that load balancer and target group; the task definition
\* holds the one container the service targets; the target group's port,
\* the container's port mapping and the service's target container port
\* are the same; and a cluster or load balancer the caller supplied is the
\* one in the graph, none being generated in its place.
C25_AwsGraphConsistent ==
    AwsGraph =>
        LET rg == ret.rg[1]
            cluster == rg.ecs_clusters[1]
            task_definition == rg.ecs_task_definitions[1]
            service == rg.ecs_services[1]
            load_balancer == rg.load_balancers[1]
            target_group == rg.target_groups[1]
            listener == rg.listeners[1]
        IN /\ Len(rg.ecs_clusters) = 1 /\ Len(rg.ecs_task_definitions) = 1
           /\ Len(rg.ecs_services) = 1 /\ Len(rg.load_balancers) = 1
           /\ Len(rg.target_groups) = 1 /\ Len(rg.listeners) = 1
           /\ service.cluster = cluster
           /\ service.task_definition = task_definition
           /\ service.target_group = target_group
           /\ service.force_delete /\ service.force_new_deployment
           /\ listener.load_balancer = load_balancer
           /\ listener.target_group = target_group
           /\ Len(task_definition.containers) = 1
           /\ task_definition.containers[1].name = service.target_container_name
           /\ Len(task_definition.containers[1].port_mappings) = 1
           /\ task_definition.containers[1].port_mappings[1].containerPort
                = target_group.port
           /\ service.target_container_port = target_group.port
           /\ IF args.ecs_cluster # None
              THEN cluster = args.ecs_cluster[1] /\ ~Constructed("EcsCluster")
              ELSE Constructed("EcsCluster")
           /\ IF args.elb # None
              THEN load_balancer = args.elb[1] /\ ~Constructed("LoadBalancer")
              ELSE Constructed("LoadBalancer")

\* C25 witness: get_aws_rg, given a cluster of the caller and no load
\* balancer, returned a graph with that cluster, a generated load balancer
\* and a service on that cluster.
C25_Witness ==
    /\ AwsGraph
    /\ args.ecs_cluster # None /\ args.elb = None
    /\ ret.rg[1].ecs_clusters[1].name = "user-cluster"
    /\ ret.rg[1].ecs_services[1].cluster.name = "user-cluster"
    /\ ret.rg[1].load_balancers[1].name = "server-lb"
    /\ ret.rg[1].listeners[1].load_balancer.name = "server-lb"

\* The configuration without its secret data
WithoutSecrets(a) == [a EXCEPT !.secrets = None]

\* The Secret objects of the graph beyond the caller's extra_secrets
GeneratedSecretsOfStep ==
    Beyond(ret'.rg[1].secrets, Len(OrEmptyList(args.extra_secrets)))

\* C26: the data of the ConfigMap a get_k8s_rg call generates is the data
\* it generates for the configuration without its secret data, so that two
\* configurations that differ in their secrets only get ConfigMaps with
\* the same data; the call generates one Secret, holding exactly the secret
\* data, when there is secret data, and no Secret when there is none.
C26_SecretsKeptOutOfConfigMap ==
    [][K8sGraphStep
       => /\ GeneratedConfigMapData(ret'.rg[1])
               = GeneratedConfigMapData(
                     get_k8s_rg(WithoutSecrets(args), workspace_root_path,
                                container_paths_ok, ret'.context).ret.rg[1])
          /\ IF get_secret_data(args) # None
             THEN /\ Len(GeneratedSecretsOfStep) = 1
                  /\ GeneratedSecretsOfStep[1].string_data = get_secret_data(args)[1]
                  /\ GeneratedSecretsOfStep[1].name = K8sSecretName(args)
             ELSE GeneratedSecretsOfStep = <<>>]_vars

\* C26 witness: get_k8s_rg on a configuration with the secret PASSWORD and
\* an env file returned a graph whose generated Secret holds PASSWORD and
\* whose generated ConfigMap holds the env file's variable and no PASSWORD.
C26_Witness ==
    /\ K8sGraph
    /\ args.secrets = Some([PASSWORD |-> "p"])
    /\ args.env_file # None
    /\ "APP_MODE" \in DOMAIN args.env_file[1]
    /\ LastOf(ret.rg[1].secrets).string_data = [PASSWORD |-> "p"]
    /\ "APP_MODE" \in DOMAIN GeneratedConfigMapData(ret.rg[1])
    /\ "PASSWORD" \notin DOMAIN GeneratedConfigMapData(ret.rg[1])

\* The environment the graph just returned gives the container, as a map
EnvOfGraph ==
    CASE ret.op = "get_docker_rg" -> ret.rg[1].containers[1].environment
      [] ret.op = "get_k8s_rg" -> GeneratedConfigMapData(ret.rg[1])
      [] OTHER ->
           LET environment == ret.rg[1].ecs_task_definitions[1].containers[1].environment
           IN [k \in {environment[i].name : i \in DOMAIN environment} |->
                  environment[CHOOSE i \in DOMAIN environment :
                                  environment[i].name = k].value]

\* The caller's sources of the environment define the python search path
CallerSetsPythonPath ==
    \E i \in DOMAIN CallerEnvSources : PYTHONPATH_ENV_VAR \in DOMAIN CallerEnvSources[i]

\* C27: in every graph get_docker_rg or get_k8s_rg returns, the python
\* search path variable, unless the env file, the secrets or the inline
\* env map define it, is python_path when python_path is set, whatever
\* add_python_path is, and else the container workspace root, followed by
\* ":" and add_python_path when add_python_path is set and not empty.  In
\* every graph get_aws_rg returns the environment has no python search
\* path variable unless one of those sources of the caller defines it.
C27_PythonPathResolution ==
    (ret.outcome = "graph" /\ ~CallerSetsPythonPath) =>
        IF ret.op = "get_aws_rg"
        THEN PYTHONPATH_ENV_VAR \notin DOMAIN EnvOfGraph
        ELSE /\ PYTHONPATH_ENV_VAR \in DOMAIN EnvOfGraph
             /\ EnvOfGraph[PYTHONPATH_ENV_VAR] =
                  (IF args.python_path # None THEN args.python_path[1]
                   ELSE IF args.add_python_path = None \/ args.add_python_path = Some("")
                   THEN ResolvedPaths.workspace_root
                   ELSE ResolvedPaths.workspace_root \o ":" \o args.add_python_path[1])

\* C27 witness: get_docker_rg on a configuration with python_path and
\* add_python_path both set returned a graph whose python search path is
\* python_path alone.
C27_Witness ==
    /\ DockerGraph
    /\ args.python_path = Some("/custom") /\ args.add_python_path = Some("/extra")
    /\ args.env = None
    /\ EnvOfGraph[PYTHONPATH_ENV_VAR] = "/custom"

\* The collection is None or holds one entry, keyed by the app's name and by
\* the name of the graph stored under it
AtMostTheAppsEntry(groups) ==
    groups # None =>
        /\ DOMAIN groups[1] = {args.name}
        /\ groups[1][args.name].name = args.name

\* The collection after the step holds the graph the step's builder call
\* returned, under the graph's name, as its one entry
StoredByStep(groups_after) ==
    /\ groups_after # None
    /\ DOMAIN groups_after[1] = {ret'.rg[1].name}
    /\ groups_after[1][ret'.rg[1].name] = ret'.rg[1]

\* C28: an init_*_resource_groups call whose builder returns a graph leaves
\* its platform's collection holding that graph, under the graph's name,
\* as its one entry; a call whose builder returns None or raises leaves
\* the collection as it was, None when it never was initialised; no call
\* changes the collection of another platform.  So each collection is None
\* or holds, under the app's name, the graph of the platform's latest
\* successful build.
C28_CollectionsHoldLatestGraph ==
    [][/\ ret'.op = "get_docker_rg"
          => /\ UNCHANGED <<k8s_resource_groups, aws_resource_groups>>
             /\ IF ret'.outcome = "graph"
                THEN StoredByStep(docker_resource_groups')
                ELSE UNCHANGED docker_resource_groups
       /\ ret'.op = "get_k8s_rg"
          => /\ UNCHANGED <<docker_resource_groups, aws_resource_groups>>
             /\ IF ret'.outcome = "graph"
                THEN StoredByStep(k8s_resource_groups')
                ELSE UNCHANGED k8s_resource_groups
       /\ ret'.op = "get_aws_rg"
          => /\ UNCHANGED <<docker_resource_groups, k8s_resource_groups>>
             /\ IF ret'.outcome = "graph"
                THEN StoredByStep(aws_resource_groups')
                ELSE UNCHANGED aws_resource_groups
       /\ AtMostTheAppsEntry(docker_resource_groups')
       /\ AtMostTheAppsEntry(k8s_resource_groups')
       /\ AtMostTheAppsEntry(aws_resource_groups')]_vars

\* C28 witness: after a Docker build and a Kubernetes build were stored, an
\* init_aws_resource_groups call raised the VPC error; the Docker and the
\* Kubernetes collection hold their graphs and the AWS collection is None.
C28_Witness ==
    /\ ret.op = "get_aws_rg" /\ ret.outcome = "raise" /\ ret.exc = MultiVpcError
    /\ docker_resource_groups # None /\ k8s_resource_groups # None
    /\ aws_resource_groups = None
    /\ docker_resource_groups[1][args.name].containers[1].name = "server-container"
    /\ k8s_resource_groups[1][args.name].deployments # None

\* The build context as it was passed to the call just made
ContextPassed ==
    CHOOSE c \in BuildContexts :
        c.kind = ret.context.kind /\ c.namespace = ret.context.namespace

\* labels overlaid with the caller's own labels, when given
Overlaid(labels, own) == DictUpdate(OrEmpty(labels), OrEmpty(own))

\* C29: after every get_k8s_rg call that returns a graph the build
\* context is as it was passed, and the primary container's, the
\* Deployment's and, where a Service is created, the Service's labels are
\* the context's labels overlaid with container_labels, with deploy_labels
\* and with service_labels respectively.
C29_LabelsKeptSeparate ==
    K8sGraph =>
        /\ ret.context = ContextPassed
        /\ GeneratedDeployment.containers[1].labels
             = Overlaid(ContextPassed.labels, args.container_labels)
        /\ GeneratedDeployment.labels
             = Overlaid(ContextPassed.labels, args.deploy_labels)
        /\ args.create_service
             => LastOf(ret.rg[1].services).labels
                  = Overlaid(ContextPassed.labels, args.service_labels)

\* C30: in every graph get_k8s_rg returns with use_rbac set, a cluster role
\* binding the call generated names the graph's cluster role and service
\* account, and the generated ConfigMap, Secret, Deployment and Service are
\* in the namespace of the graph's namespace object, the Deployment and the
\* Service with the name of the graph's service account, whatever ns_name
\* and sa_name say.  In every graph the generated Deployment's containers
\* are the primary container, then the caller's extra containers, then
\* the git-sync sidecar when one is created.
C30_RbacReferencesAndContainerOrder ==
    [][K8sGraphStep
       => LET rg == ret'.rg[1]
              deployment == GeneratedDeploymentOfStep
              extra == OrEmptyList(args.extra_containers)
          IN /\ args.use_rbac
                => /\ args.cluster_role_binding = None
                      => /\ rg.crb[1].cr_name = rg.cr[1].cr_name
                         /\ rg.crb[1].service_account_name = rg.sa[1].sa_name
                         /\ rg.crb[1].namespace = rg.ns[1].ns
                   /\ args.service_account = None
                      => rg.sa[1].namespace = rg.ns[1].ns
                   /\ LastOf(rg.config_maps).namespace = rg.ns[1].ns
                   /\ get_secret_data(args) # None
                      => LastOf(rg.secrets).namespace = rg.ns[1].ns
                   /\ deployment.namespace = rg.ns[1].ns
                   /\ deployment.service_account_name = rg.sa[1].sa_name
                   /\ args.create_service
                      => /\ LastOf(rg.services).namespace = rg.ns[1].ns
                         /\ LastOf(rg.services).service_account_name = rg.sa[1].sa_name
             /\ deployment.containers[1].name = get_container_name(args)
             /\ SubSeq(deployment.containers, 2, 1 + Len(extra)) = extra
             /\ NameSeq(Beyond(Some(deployment.containers), 1 + Len(extra)))
                  \in {<<>>, <<"git-sync">>}]_vars

\* C30 witness: get_k8s_rg with use_rbac, given the caller's namespace
\* "user-ns" and service account "user-sa" next to ns_name "apps",
\* generated a binding for that service account in that namespace and a
\* Deployment and a Service in that namespace under that service account.
C30_Witness ==
    /\ K8sGraph
    /\ args.use_rbac
    /\ args.namespace = Some(UserNamespace)
    /\ args.service_account = Some(UserServiceAccount)
    /\ args.cluster_role_binding = None /\ args.cluster_role = None
    /\ args.ns_name = Some("apps")
    /\ ret.rg[1].crb[1].service_account_name = "user-sa"
    /\ ret.rg[1].crb[1].namespace = "user-ns"
    /\ ret.rg[1].crb[1].cr_name = "app-role"
    /\ GeneratedDeployment.namespace = "user-ns"
    /\ GeneratedDeployment.service_account_name = "user-sa"
    /\ LastOf(ret.rg[1].services).namespace = "user-ns"
    /\ LastOf(ret.rg[1].config_maps).namespace = "user-ns"

====
